---- MODULE Spec2Model ----
(***************************************************************************)
(* Playback engine of esplay-audio-player: the player task (player_task,   *)
(* play_song, handle_cmd, get_next_song_index), the command and ack queues *)
(* it shares with the UI context (player_send_cmd, player_terminate) and   *)
(* the output sink's setup state (audio_init).                             *)
(*                                                                         *)
(* The player task is cut at its scheduling points: the top of the         *)
(* for(;;) loop of player_task, the top of the do-while loop of play_song  *)
(* (watchdog reset, command poll, handle_cmd) and the body's second half   *)
(* (decode and submit, or the pause sleep).  The local info of play_song    *)
(* reads 0 while no song is open.  The I2S driver calls made by            *)
(* audio_init are external collaborators and are taken to succeed.         *)
(***************************************************************************)
EXTENDS Integers, Sequences, FiniteSets, TLC

(* ---------------------------------------------------------------------- *)
(* Bounds of the model                                                     *)
(* ---------------------------------------------------------------------- *)
MaxEntries == 3
MaxPending == 1
MaxLen == 4
MaxStem == 2
MaxDir == 3
KeyBits == 1
MaxFrames == 2
MaxMutexes == 2
MaxExtra == 1

(* ---------------------------------------------------------------------- *)
(* Program constants                                                       *)
(* ---------------------------------------------------------------------- *)
PlayingModeNormal == 0
PlayingModeRepeatSong == 1
PlayingModeRepeatPlaylist == 2
PlayingModeMax == 3
QueueLength == 3
DEFAULT_SAMPLE_RATE == 44100
AckToken == 42
MAX_SONGS == 1024
AUDIO_VOLUME_DEFAULT == 20
METADATA_TITLE_MAX == 64
METADATA_ARTIST_MAX == 64
METADATA_ALBUM_MAX == 64

PlayerCmd == {"PlayerCmdNone", "PlayerCmdTerminate", "PlayerCmdPause",
              "PlayerCmdNext", "PlayerCmdPrev", "PlayerCmdReinitAudio",
              "PlayerCmdToggleLoopMode"}

PlayerResult == {"PlayerResultNone", "PlayerResultError", "PlayerResultDone",
                 "PlayerResultNextSong", "PlayerResultPrevSong",
                 "PlayerResultStop"}

\* File types a directory entry's name resolves to (fops_determine_filetype);
\* the main specification draws each entry as unsupported or MP3.
EntryTypes == {"FileTypeNone", "FileTypeMP3"}

\* info.sample_rate values a decoder's get_info reports.
SampleRates == {44100, 48000}

\* Frame counts decoder->decode returns: an error, end of stream, a chunk.
DecodeResults == {-1, 0, 1}

\* Outcomes of acodec_get_decoder / decoder->open / decoder->get_info.
OpenOutcomes == {"ok", "no_decoder", "open_fail", "info_fail"}

\* Outcomes of the allocations made while the task starts.
AllocOutcomes == {"ok", "playlist_malloc_null", "song_malloc_null",
                  "audio_buf_null"}

\* Commands the UI context hands to player_send_cmd.
SendCmds == {"PlayerCmdPause", "PlayerCmdNext", "PlayerCmdPrev",
             "PlayerCmdReinitAudio", "PlayerCmdToggleLoopMode"}

VARIABLES
  player_state,         \* PlayerState
  player_task_running,  \* task-alive flag
  player_cmd_queue,     \* UI -> player, capacity 3
  player_ack_queue,     \* player -> UI, capacity 3
  audio,                \* audio.c: initialized, current_std_cfg sample rate
  pc,                   \* position of the player task
  song_index,           \* player_task: local song_index
  info,                 \* play_song: info.sample_rate of the open song
  n_frames,             \* play_song: local n_frames
  result,               \* play_song: last result returned (res of player_task)
  received_cmd,         \* command polled by the song's latest iteration
  did,                  \* what the latest loop body did: decode or sleep
  ui_pc,                \* position of the UI context
  pause_mark,           \* history: index and mode when a Pause last paused
  idx,                  \* index-resolution specification: state and trail
  resources,            \* what the task holds: playlist storage, watchdog
                        \* registration, the task itself
  ui_call,              \* history: the latest player_send_cmd call
  fn                    \* input and output of a function applied on its own

vars == <<player_state, player_task_running, player_cmd_queue,
          player_ack_queue, audio, pc, song_index, info, n_frames, result,
          received_cmd, did, ui_pc, pause_mark, idx, resources, ui_call,
          fn>>

playerVars == <<player_state, player_task_running, player_cmd_queue,
                player_ack_queue, audio, pc, song_index, info, n_frames,
                result, received_cmd, did, ui_pc, pause_mark, resources,
                ui_call>>

(* ---------------------------------------------------------------------- *)
(* Pure functions                                                          *)
(* ---------------------------------------------------------------------- *)

\* All sequences over S of length 0..n.
SeqsUpTo(S, n) == UNION {[1..k -> S] : k \in 0..n}

choose_codec(ftype) ==
  CASE ftype = "FileTypeMOD" -> "AudioCodecMOD"
    [] ftype = "FileTypeMP3" -> "AudioCodecMP3"
    [] ftype = "FileTypeOGG" -> "AudioCodecOGG"
    [] ftype = "FileTypeFLAC" -> "AudioCodecFLAC"
    [] ftype = "FileTypeWAV" -> "AudioCodecWAV"
    [] ftype = "FileTypeGME" -> "AudioCodecGME"
    [] OTHER -> "AudioCodecUnknown"

\* make_playlist, play-all branch, first loop: the 0-based entry positions
\* whose codec is resolved, in scan order.
RECURSIVE song_indices(_, _)
song_indices(ents, i) ==
  IF i > Len(ents) THEN <<>>
  ELSE IF choose_codec(ents[i]) # "AudioCodecUnknown"
       THEN <<i - 1>> \o song_indices(ents, i + 1)
       ELSE song_indices(ents, i + 1)

\* C remainder of a non-negative int by a positive int.
CMod(a, b) == a % b

\* Variants of get_next_song_index with one plausible slip each.
get_next_song_index_PrevNoWrap(state, res, current_index) ==
  IF res = "PlayerResultDone" \/ res = "PlayerResultNextSong"
  THEN IF state.playing_mode # PlayingModeRepeatSong
          \/ res = "PlayerResultNextSong"
       THEN CMod(current_index + 1, state.playlist_length)
       ELSE current_index
  ELSE IF res = "PlayerResultPrevSong"
  THEN current_index - 1
  ELSE IF res = "PlayerResultError"
  THEN CMod(current_index + 1, state.playlist_length)
  ELSE current_index

get_next_song_index_RepeatBlocksNext(state, res, current_index) ==
  IF res = "PlayerResultDone" \/ res = "PlayerResultNextSong"
  THEN IF state.playing_mode # PlayingModeRepeatSong
       THEN CMod(current_index + 1, state.playlist_length)
       ELSE current_index
  ELSE IF res = "PlayerResultPrevSong"
  THEN IF current_index - 1 < 0
       THEN state.playlist_length - 1
       ELSE current_index - 1
  ELSE IF res = "PlayerResultError"
  THEN CMod(current_index + 1, state.playlist_length)
  ELSE current_index

get_next_song_index_NoRepeat(state, res, current_index) ==
  IF res = "PlayerResultDone" \/ res = "PlayerResultNextSong"
  THEN CMod(current_index + 1, state.playlist_length)
  ELSE IF res = "PlayerResultPrevSong"
  THEN IF current_index - 1 < 0
       THEN state.playlist_length - 1
       ELSE current_index - 1
  ELSE IF res = "PlayerResultError"
  THEN CMod(current_index + 1, state.playlist_length)
  ELSE current_index

get_next_song_index_ErrorRepeats(state, res, current_index) ==
  IF res = "PlayerResultDone" \/ res = "PlayerResultNextSong"
     \/ res = "PlayerResultError"
  THEN IF state.playing_mode # PlayingModeRepeatSong
          \/ res = "PlayerResultNextSong"
       THEN CMod(current_index + 1, state.playlist_length)
       ELSE current_index
  ELSE IF res = "PlayerResultPrevSong"
  THEN IF current_index - 1 < 0
       THEN state.playlist_length - 1
       ELSE current_index - 1
  ELSE current_index

get_next_song_index(state, res, current_index) ==
  IF res = "PlayerResultDone" \/ res = "PlayerResultNextSong"
  THEN IF state.playing_mode # PlayingModeRepeatSong
          \/ res = "PlayerResultNextSong"
       THEN CMod(current_index + 1, state.playlist_length)
       ELSE current_index
  ELSE IF res = "PlayerResultPrevSong"
  THEN IF current_index - 1 < 0
       THEN state.playlist_length - 1
       ELSE current_index - 1
  ELSE IF res = "PlayerResultError"
  THEN CMod(current_index + 1, state.playlist_length)
  ELSE current_index

\* audio_init: refuses when already initialized, else sets the sink up at rate.
audio_init(a, rate) ==
  IF a.initialized THEN a
  ELSE [initialized |-> TRUE, sample_rate |-> rate]

\* audio_terminate: tears the sink down.
audio_terminate(a) == [a EXCEPT !.initialized = FALSE]

\* xQueueSend with a zero timeout: the item is dropped when the queue is full.
QueueSend0_DropsOldest(q, x) ==
  IF Len(q) < QueueLength THEN Append(q, x) ELSE Append(Tail(q), x)

QueueSend0(q, x) == IF Len(q) < QueueLength THEN Append(q, x) ELSE q

\* player_poll_cmd: the head of the queue, PlayerCmdNone when it is empty.
player_poll_cmd_Newest(q) == IF q = <<>> THEN "PlayerCmdNone" ELSE q[Len(q)]

player_poll_cmd(q) == IF q = <<>> THEN "PlayerCmdNone" ELSE Head(q)

player_cmd_ack(ackq) == QueueSend0(ackq, AckToken)

\* handle_cmd, case PlayerCmdToggleLoopMode: the next loop mode.
next_playing_mode_TwoModes(mode) == (mode + 1) % PlayingModeRepeatPlaylist

next_playing_mode(mode) == (mode + 1) % PlayingModeMax

\* handle_cmd: the result a command ends the call with.
cmd_result_NextIgnored(cmd) ==
  CASE cmd = "PlayerCmdTerminate" -> "PlayerResultStop"
    [] cmd = "PlayerCmdPrev" -> "PlayerResultPrevSong"
    [] OTHER -> "PlayerResultDone"

cmd_result(cmd) ==
  CASE cmd = "PlayerCmdTerminate" -> "PlayerResultStop"
    [] cmd = "PlayerCmdNext" -> "PlayerResultNextSong"
    [] cmd = "PlayerCmdPrev" -> "PlayerResultPrevSong"
    [] OTHER -> "PlayerResultDone"

\* handle_cmd, case PlayerCmdReinitAudio: the sink is torn down when the
\* player is playing, then set up at the song's sample rate.
reinit_audio_NoTeardown(state, a, rate) == audio_init(a, rate)

reinit_audio(state, a, rate) ==
  audio_init(IF state.playing THEN audio_terminate(a) ELSE a, rate)

\* handle_cmd: new PlayerState, sink, ack queue and the result.
handle_cmd(state, a, ackq, rate, cmd) ==
  IF cmd = "PlayerCmdNone"
  THEN [state |-> state, audio |-> a, ack |-> ackq, res |-> "PlayerResultDone"]
  ELSE
    LET st == CASE cmd = "PlayerCmdPause" ->
                     [state EXCEPT !.playing = ~state.playing]
                [] cmd = "PlayerCmdToggleLoopMode" ->
                     [state EXCEPT !.playing_mode =
                        next_playing_mode(state.playing_mode)]
                [] OTHER -> state
        au == CASE cmd = "PlayerCmdPause" ->
                     IF st.playing THEN audio_init(a, rate)
                     ELSE audio_terminate(a)
                [] cmd = "PlayerCmdReinitAudio" ->
                     reinit_audio(state, a, rate)
                [] OTHER -> a
        rs == cmd_result(cmd)
    IN [state |-> st, audio |-> au, ack |-> player_cmd_ack(ackq), res |-> rs]

(* ---------------------------------------------------------------------- *)
(* Initial state: app_main has run audio_init(DEFAULT_SAMPLE_RATE) and     *)
(* player_start has created both queues and the player task.               *)
(* ---------------------------------------------------------------------- *)
ZeroState == [playing |-> FALSE, playlist |-> <<>>, playlist_length |-> 0,
              playlist_index |-> 0, playing_mode |-> PlayingModeNormal]

NoMark == [index |-> -1, mode |-> -1]

\* player_start: the task is created and registered with the task watchdog;
\* no playlist storage is allocated yet.
StartedResources == [playlist_alloc |-> FALSE, playlist_frees |-> 0,
                     wdt |-> TRUE, wdt_fed |-> FALSE, task |-> TRUE]

NoCall == [cmd |-> "PlayerCmdNone", queued |-> FALSE, ack |-> "none"]

FnIdle == [op |-> "none"]

IdxIdle == [state |-> ZeroState, trail |-> <<>>]

PlayerConstructed ==
  /\ player_state = ZeroState
  /\ player_task_running = FALSE
  /\ player_cmd_queue = <<>>
  /\ player_ack_queue = <<>>
  /\ audio = audio_init([initialized |-> FALSE, sample_rate |-> 0],
                        DEFAULT_SAMPLE_RATE)
  /\ pc = "start"
  /\ song_index = 0
  /\ info = 0
  /\ n_frames = 0
  /\ result = "PlayerResultNone"
  /\ received_cmd = "PlayerCmdNone"
  /\ did = "none"
  /\ ui_pc = "idle"
  /\ pause_mark = NoMark
  /\ resources = StartedResources
  /\ ui_call = NoCall

Init ==
  /\ PlayerConstructed
  /\ idx = IdxIdle
  /\ fn = FnIdle

(* ---------------------------------------------------------------------- *)
(* Player task                                                             *)
(* ---------------------------------------------------------------------- *)

\* play_song after its loop: decoder->close, then the sink is torn down if
\* the song ends while playing.
play_song_exit(state, a) ==
  IF state.playing THEN audio_terminate(a) ELSE a

\* player_task after play_song returned res (not Stop): resolve the index.
resolve_index(state, res, current_index) ==
  [state EXCEPT !.playlist_index =
     get_next_song_index(state, res, current_index)]

\* player_task up to the for(;;) loop: list the directory (entries is what
\* fops_list_dir returns), build the playlist of Songs (a Song is modelled
\* by its codec), allocate the audio buffer.  Every early return leaves the task
\* function without clearing player_task_running.
PlayerTaskStart ==
  /\ pc = "start"
  /\ player_task_running' = TRUE
  /\ \E opened \in BOOLEAN, alloc \in AllocOutcomes,
        entries \in SeqsUpTo(EntryTypes, MaxEntries) :
       LET sidx == song_indices(entries, 1)
           n_songs == Len(sidx)
           built == [ZeroState EXCEPT !.playlist =
                                        [k \in 1..n_songs |->
                                           choose_codec(entries[sidx[k] + 1])],
                                      !.playlist_length = n_songs]
       IN /\ IF ~opened
             THEN /\ pc' = "returned"
                  /\ player_state' = ZeroState
             ELSE IF alloc = "playlist_malloc_null"
             THEN /\ pc' = "returned"
                  /\ player_state' = ZeroState
             ELSE IF alloc = "song_malloc_null" /\ n_songs > 0
             THEN /\ pc' = "returned"
                  /\ player_state' = [ZeroState EXCEPT !.playlist_length = n_songs]
             ELSE IF alloc = "audio_buf_null"
             THEN /\ pc' = "returned"
                  /\ player_state' = built
             ELSE /\ pc' = "song"
                  /\ player_state' = built
          /\ resources' = [resources EXCEPT !.playlist_alloc =
                             opened /\ alloc # "playlist_malloc_null"]
  /\ UNCHANGED <<player_cmd_queue, player_ack_queue, audio,
                 song_index, info, n_frames, result, received_cmd, did,
                 ui_pc, pause_mark, idx, ui_call, fn>>

\* Top of for(;;): song = &playlist[playlist_index]; play_song up to its
\* do-while loop.  With an empty playlist the read of playlist[0] is out of
\* bounds and the index resolution divides by zero: the task faults.
PlaySongOpen ==
  /\ pc = "song"
  /\ IF player_state.playlist_length = 0
     THEN /\ pc' = "fault"
          /\ UNCHANGED <<player_state, audio, song_index, info, n_frames,
                         result, received_cmd, did>>
     ELSE /\ song_index' = player_state.playlist_index
          /\ received_cmd' = "PlayerCmdNone"
          /\ did' = "none"
          /\ \E outcome \in OpenOutcomes :
               IF outcome # "ok"
               THEN /\ result' = "PlayerResultError"
                    /\ player_state' = resolve_index(player_state,
                                          "PlayerResultError", song_index')
                    /\ pc' = "song"
                    /\ UNCHANGED <<audio, info, n_frames>>
               ELSE \E rate \in SampleRates :
                    /\ info' = rate
                    /\ audio' = audio_init(audio, rate)
                    /\ n_frames' = 0
                    /\ player_state' = [player_state EXCEPT !.playing = TRUE]
                    /\ result' = "PlayerResultDone"
                    /\ pc' = "poll"
  /\ UNCHANGED <<player_task_running, player_cmd_queue,
                 player_ack_queue, ui_pc, pause_mark, idx,
                 resources, ui_call, fn>>

\* esp_task_wdt_reset at the top of the loop body: the watchdog has been
\* fed since the last decode or sleep.
esp_task_wdt_reset_Skipped(fed) == fed

esp_task_wdt_reset(fed) == TRUE

\* First half of a loop iteration: watchdog reset, player_poll_cmd,
\* handle_cmd; a result other than Done breaks out of the loop, play_song
\* returns it and player_task either stops or resolves the next index.
PollCmd ==
  /\ pc = "poll"
  /\ LET cmd == player_poll_cmd(player_cmd_queue)
         h == handle_cmd(player_state, audio, player_ack_queue, info, cmd)
     IN /\ received_cmd' = cmd
        /\ player_cmd_queue' = IF player_cmd_queue = <<>> THEN <<>>
                                ELSE Tail(player_cmd_queue)
        /\ player_ack_queue' = h.ack
        /\ result' = h.res
        /\ did' = "none"
        /\ IF h.res = "PlayerResultDone"
           THEN /\ pc' = "decode"
                /\ player_state' = h.state
                /\ audio' = h.audio
                /\ UNCHANGED player_task_running
           ELSE /\ audio' = play_song_exit(h.state, h.audio)
                /\ IF h.res = "PlayerResultStop"
                   THEN /\ pc' = "stopped"
                        /\ player_state' = h.state
                        /\ player_task_running' = FALSE
                   ELSE /\ pc' = "song"
                        /\ player_state' =
                              resolve_index(h.state, h.res, song_index)
                        /\ UNCHANGED player_task_running
        /\ info' = IF h.res = "PlayerResultDone" THEN info ELSE 0
        /\ pause_mark' =
             IF cmd = "PlayerCmdNone" THEN pause_mark
             ELSE IF cmd = "PlayerCmdPause" /\ player_state.playing
             THEN [index |-> player_state.playlist_index,
                   mode |-> player_state.playing_mode]
             ELSE NoMark
  /\ resources' = [resources EXCEPT
                     !.wdt_fed = esp_task_wdt_reset(resources.wdt_fed)]
  /\ UNCHANGED <<song_index, n_frames, ui_pc, idx, ui_call, fn>>

\* player_task after the for(;;) loop has been left and the task-alive
\* flag cleared: player_teardown_task removes the task from the watchdog
\* and deletes the calling task.  vTaskDelete(NULL) does not return, so the
\* free_playlist call written after it is never executed.
PlayerTeardown ==
  /\ pc = "stopped"
  /\ resources' = [resources EXCEPT !.wdt = FALSE, !.task = FALSE]
  /\ pc' = "deleted"
  /\ UNCHANGED <<player_state, player_task_running, player_cmd_queue,
                 player_ack_queue, audio, song_index, info, n_frames,
                 result, received_cmd, did, ui_pc, pause_mark, idx, ui_call,
                 fn>>

\* play_song, while (n_frames > 0): the loop goes on to another iteration.
loop_continues_OnZero(frames) == frames >= 0

loop_continues(frames) == frames > 0

\* play_song, if (state->playing): the body decodes and submits a chunk.
body_decodes_Always(state) == TRUE

body_decodes(state) == state.playing

\* Second half of a loop iteration: decode one chunk and submit it when
\* playing, else sleep; then the loop condition n_frames > 0.
DecodeStep ==
  /\ pc = "decode"
  /\ \E n \in DecodeResults :
       LET decodes == body_decodes(player_state)
           frames == IF decodes THEN n ELSE n_frames
       IN /\ did' = IF decodes THEN "decode" ELSE "sleep"
          /\ IF loop_continues(frames)
             THEN /\ pc' = "poll"
                  /\ n_frames' = frames
                  /\ UNCHANGED <<player_state, audio, info>>
             ELSE /\ pc' = "song"
                  /\ n_frames' = frames
                  /\ info' = 0
                  /\ audio' = play_song_exit(player_state, audio)
                  /\ player_state' =
                        resolve_index(player_state, result, song_index)
  /\ resources' = [resources EXCEPT !.wdt_fed = FALSE]
  /\ UNCHANGED <<player_task_running, player_cmd_queue,
                 player_ack_queue, song_index, result, received_cmd,
                 ui_pc, pause_mark, idx, ui_call, fn>>

(* ---------------------------------------------------------------------- *)
(* UI context                                                              *)
(* ---------------------------------------------------------------------- *)

\* player_send_cmd, first line: enqueue without blocking.  In this
\* specification the UI context issues a command only while fewer than
\* MaxPending commands are waiting to be polled.
SendCmd_WritesState ==
  /\ ui_pc = "idle"
  /\ Len(player_cmd_queue) < MaxPending
  /\ \E cmd \in SendCmds :
       /\ player_cmd_queue' = QueueSend0(player_cmd_queue, cmd)
       /\ player_state' = handle_cmd(player_state, audio, player_ack_queue,
                                     info, cmd).state
  /\ ui_pc' = "wait_ack"
  /\ UNCHANGED <<player_task_running,
                 player_ack_queue, audio, pc, song_index, info, n_frames,
                 result, received_cmd, did, pause_mark, idx,
                 resources, ui_call, fn>>

SendCmd ==
  /\ ui_pc = "idle"
  /\ Len(player_cmd_queue) < MaxPending
  /\ \E cmd \in SendCmds :
       player_cmd_queue' = QueueSend0(player_cmd_queue, cmd)
  /\ ui_pc' = "wait_ack"
  /\ UNCHANGED <<player_state, player_task_running,
                 player_ack_queue, audio, pc, song_index, info, n_frames,
                 result, received_cmd, did, pause_mark, idx,
                 resources, ui_call, fn>>

\* player_send_cmd, ack wait: an ack token arrives within the timeout.
AckReceive ==
  /\ ui_pc = "wait_ack"
  /\ player_ack_queue # <<>>
  /\ player_ack_queue' = Tail(player_ack_queue)
  /\ ui_pc' = "idle"
  /\ UNCHANGED <<player_state, player_task_running,
                 player_cmd_queue, audio, pc, song_index, info, n_frames,
                 result, received_cmd, did, pause_mark, idx,
                 resources, ui_call, fn>>

\* player_send_cmd, ack wait: the timeout expires with no token.
AckTimeout ==
  /\ ui_pc = "wait_ack"
  /\ player_ack_queue = <<>>
  /\ ui_pc' = "idle"
  /\ UNCHANGED <<player_state, player_task_running,
                 player_cmd_queue, player_ack_queue, audio, pc, song_index,
                 info, n_frames, result, received_cmd, did, pause_mark, idx,
                 resources, ui_call, fn>>

\* player_terminate: returns at once unless the task-alive flag is set.
TerminateCall ==
  /\ ui_pc = "idle"
  /\ player_task_running
  /\ ui_pc' = "term_send"
  /\ UNCHANGED <<player_state, player_task_running,
                 player_cmd_queue, player_ack_queue, audio, pc, song_index,
                 info, n_frames, result, received_cmd, did, pause_mark, idx,
                 resources, ui_call, fn>>

\* player_terminate: xQueueSend with portMAX_DELAY waits for room.
TerminateSend ==
  /\ ui_pc = "term_send"
  /\ Len(player_cmd_queue) < QueueLength
  /\ player_cmd_queue' = Append(player_cmd_queue, "PlayerCmdTerminate")
  /\ ui_pc' = "term_wait"
  /\ UNCHANGED <<player_state, player_task_running,
                 player_ack_queue, audio, pc, song_index, info, n_frames,
                 result, received_cmd, did, pause_mark, idx,
                 resources, ui_call, fn>>

\* player_terminate: the wait loop ends once the flag is clear.
TerminateReturn ==
  /\ ui_pc = "term_wait"
  /\ ~player_task_running
  /\ ui_pc' = "idle"
  /\ UNCHANGED <<player_state, player_task_running,
                 player_cmd_queue, player_ack_queue, audio, pc, song_index,
                 info, n_frames, result, received_cmd, did, pause_mark, idx,
                 resources, ui_call, fn>>

Next ==
  \/ PlayerTaskStart
  \/ PlaySongOpen
  \/ PollCmd
  \/ DecodeStep
  \/ PlayerTeardown
  \/ SendCmd
  \/ AckReceive
  \/ AckTimeout
  \/ TerminateCall
  \/ TerminateSend
  \/ TerminateReturn

Spec == Init /\ [][Next]_vars

\* The player task keeps being scheduled: it is a FreeRTOS task of its own
\* pinned to a core, and each of its steps (a decode, a submit, a delay)
\* returns.  Nothing is assumed of the UI context or of what a step yields.
PlayerTaskFair ==
  /\ WF_vars(PlayerTaskStart)
  /\ WF_vars(PlaySongOpen)
  /\ WF_vars(PollCmd)
  /\ WF_vars(DecodeStep)
  /\ WF_vars(PlayerTeardown)

SpecFair == Spec /\ PlayerTaskFair

(* ---------------------------------------------------------------------- *)
(* The command channel with an unrestrained sender: the UI context calls   *)
(* player_send_cmd whenever its previous call has returned, whatever the   *)
(* queue holds; ui_call records how the latest call went.                  *)
(* ---------------------------------------------------------------------- *)

\* Commands the unrestrained sender issues: one the song's loop absorbs
\* and one that ends the song.
QCmds == {"PlayerCmdPause", "PlayerCmdNext"}

\* player_send_cmd, xQueueSend with a wait of 0 ticks.
QSendCmd ==
  /\ ui_pc = "idle"
  /\ \E cmd \in QCmds :
       /\ player_cmd_queue' = QueueSend0(player_cmd_queue, cmd)
       /\ ui_call' = [cmd |-> cmd,
                      queued |-> Len(player_cmd_queue) < QueueLength,
                      ack |-> "waiting"]
  /\ ui_pc' = "wait_ack"
  /\ UNCHANGED <<player_state, player_task_running, player_ack_queue,
                 audio, pc, song_index, info, n_frames, result,
                 received_cmd, did, pause_mark, idx, resources, fn>>

\* player_send_cmd, xQueueReceive on the ack queue: a token is there.
QAckReceive ==
  /\ ui_pc = "wait_ack"
  /\ player_ack_queue # <<>>
  /\ player_ack_queue' = Tail(player_ack_queue)
  /\ ui_call' = [ui_call EXCEPT !.ack = "got"]
  /\ ui_pc' = "idle"
  /\ UNCHANGED <<player_state, player_task_running, player_cmd_queue,
                 audio, pc, song_index, info, n_frames, result,
                 received_cmd, did, pause_mark, idx, resources, fn>>

\* player_send_cmd, xQueueReceive on the ack queue: the wait times out;
\* the call returns without touching either queue.
QAckTimeout_Cancels ==
  /\ ui_pc = "wait_ack"
  /\ player_ack_queue = <<>>
  /\ ui_call' = [ui_call EXCEPT !.ack = "timeout"]
  /\ ui_pc' = "idle"
  /\ player_cmd_queue' =
       IF ui_call.queued /\ player_cmd_queue # <<>>
       THEN SubSeq(player_cmd_queue, 1, Len(player_cmd_queue) - 1)
       ELSE player_cmd_queue
  /\ UNCHANGED <<player_state, player_task_running,
                 player_ack_queue, audio, pc, song_index, info, n_frames,
                 result, received_cmd, did, pause_mark, idx, resources, fn>>

QAckTimeout ==
  /\ ui_pc = "wait_ack"
  /\ player_ack_queue = <<>>
  /\ ui_call' = [ui_call EXCEPT !.ack = "timeout"]
  /\ ui_pc' = "idle"
  /\ UNCHANGED <<player_state, player_task_running, player_cmd_queue,
                 player_ack_queue, audio, pc, song_index, info, n_frames,
                 result, received_cmd, did, pause_mark, idx, resources, fn>>

QNext ==
  \/ PlayerTaskStart
  \/ PlaySongOpen
  \/ PollCmd
  \/ DecodeStep
  \/ QSendCmd
  \/ QAckReceive
  \/ QAckTimeout

SpecQ == Init /\ [][QNext]_vars

(* ---------------------------------------------------------------------- *)
(* Index resolution on its own: get_next_song_index and the loop-mode      *)
(* toggle of handle_cmd applied to every playlist length 1..MaxLen, every  *)
(* index and every loop mode.  trail keeps the last two resolutions.       *)
(* ---------------------------------------------------------------------- *)
Resolutions == {"PlayerResultDone", "PlayerResultNextSong",
                "PlayerResultPrevSong", "PlayerResultError"}

LastTwo(s) == IF Len(s) <= 2 THEN s ELSE SubSeq(s, Len(s) - 1, Len(s))

IdxInit ==
  /\ PlayerConstructed
  /\ fn = FnIdle
  /\ \E L \in 1..MaxLen, m \in 0..(PlayingModeMax - 1) :
       \E i \in 0..(L - 1) :
         idx = [state |-> [ZeroState EXCEPT !.playlist_length = L,
                                            !.playlist_index = i,
                                            !.playing_mode = m],
                trail |-> <<>>]

IdxResolve ==
  /\ \E res \in Resolutions :
       idx' = [state |-> resolve_index(idx.state, res,
                                       idx.state.playlist_index),
               trail |-> LastTwo(Append(idx.trail,
                           [res |-> res, from |-> idx.state.playlist_index,
                            mode |-> idx.state.playing_mode]))]
  /\ UNCHANGED <<playerVars, fn>>

IdxToggle ==
  /\ idx' = [state |-> handle_cmd(idx.state, audio, <<>>, 0,
                                  "PlayerCmdToggleLoopMode").state,
             trail |-> <<>>]
  /\ UNCHANGED <<playerVars, fn>>

IdxNext == IdxResolve \/ IdxToggle

SpecIdx == IdxInit /\ [][IdxNext]_vars

(* ---------------------------------------------------------------------- *)
(* make_playlist on its own: applied to every listing of up to MaxEntries  *)
(* entries, every params.index within it, both branches and every          *)
(* allocation outcome.  An entry is modelled by the file type its name     *)
(* resolves to; a Song records the scan position of its entry (standing    *)
(* for the copied filename) and its codec.                                 *)
(* ---------------------------------------------------------------------- *)
PlTypes == {"FileTypeNone", "FileTypeMP3", "FileTypeWAV"}

\* make_playlist, first loop: start_song is the playlist position j at which
\* the entry at params.index was stored, 0 when that entry is not playable.
start_song_EntryIndex(sidx, index) ==
  IF \E j \in 1..Len(sidx) : sidx[j] = index THEN index ELSE 0

start_song(sidx, index) ==
  IF \E j \in 1..Len(sidx) : sidx[j] = index
  THEN (CHOOSE j \in 1..Len(sidx) : sidx[j] = index) - 1
  ELSE 0

\* make_playlist: the return value and the PlayerState it leaves.
make_playlist(state, params, alloc) ==
  IF params.play_all
  THEN LET sidx == song_indices(params.entries, 1)
           n_songs == Len(sidx)
       IN IF alloc = "playlist_malloc_null"
          THEN [ret |-> -1, state |-> state]
          ELSE IF alloc = "song_malloc_null" /\ n_songs > 0
          THEN [ret |-> -1,
                state |-> [state EXCEPT !.playlist_length = n_songs]]
          ELSE [ret |-> 0,
                state |-> [state EXCEPT
                   !.playlist =
                      [k \in 1..n_songs |->
                         [entry |-> sidx[k],
                          codec |-> choose_codec(params.entries[sidx[k] + 1])]],
                   !.playlist_length = n_songs,
                   !.playlist_index = start_song(sidx, params.index)]]
  ELSE LET codec == choose_codec(params.entries[params.index + 1])
       IN IF codec = "AudioCodecUnknown" \/ alloc # "ok"
          THEN [ret |-> -1, state |-> state]
          ELSE [ret |-> 0,
                state |-> [state EXCEPT
                   !.playlist = <<[entry |-> params.index, codec |-> codec]>>,
                   !.playlist_length = 1]]

PlAllocs == {"ok", "playlist_malloc_null", "song_malloc_null"}

PlInit ==
  /\ PlayerConstructed
  /\ idx = IdxIdle
  /\ \E entries \in SeqsUpTo(PlTypes, MaxEntries), play_all \in BOOLEAN,
        alloc \in PlAllocs :
       \E index \in 0..(IF Len(entries) = 0 THEN 0 ELSE Len(entries) - 1) :
         /\ (play_all \/ Len(entries) > 0)
         /\ fn = [op |-> "make_playlist",
                  params |-> [entries |-> entries, index |-> index,
                              play_all |-> play_all],
                  alloc |-> alloc, done |-> FALSE,
                  out |-> [ret |-> 0, state |-> ZeroState]]

PlApply ==
  /\ fn.op = "make_playlist"
  /\ ~fn.done
  /\ fn' = [fn EXCEPT !.done = TRUE,
                      !.out = make_playlist(ZeroState, fn.params, fn.alloc)]
  /\ UNCHANGED <<playerVars, idx>>

SpecPl == PlInit /\ [][PlApply]_vars

(* ---------------------------------------------------------------------- *)
(* fops_determine_filetype on its own.  A filename is a sequence of        *)
(* characters: a stem of up to MaxStem characters, then nothing or a dot,  *)
(* then one of NameTails.                                                  *)
(* ---------------------------------------------------------------------- *)
UpperCase == <<"A", "B", "C", "D", "E", "F", "G", "H", "I", "J", "K", "L", "M",
               "N", "O", "P", "Q", "R", "S", "T", "U", "V", "W", "X", "Y", "Z">>

LowerCase == <<"a", "b", "c", "d", "e", "f", "g", "h", "i", "j", "k", "l", "m",
               "n", "o", "p", "q", "r", "s", "t", "u", "v", "w", "x", "y", "z">>

\* tolower as strncasecmp applies it to each character.
ToLower(c) ==
  IF \E k \in 1..26 : UpperCase[k] = c
  THEN LowerCase[CHOOSE k \in 1..26 : UpperCase[k] = c]
  ELSE c

\* strncasecmp(a, b, n) = 0 for a and b of length n.
EqNoCase(a, b) ==
  /\ Len(a) = Len(b)
  /\ \A k \in 1..Len(a) : ToLower(a[k]) = ToLower(b[k])

\* The last n characters of a name of at least n characters.
Suffix(name, n) == SubSeq(name, Len(name) - n + 1, Len(name))

\* matches_extension: some listed extension equals, ignoring case, the
\* last ext_len characters of the filename.
matches_extension(filename, exts) ==
  \E i \in 1..Len(exts) :
    /\ Len(filename) >= Len(exts[i])
    /\ EqNoCase(exts[i], Suffix(filename, Len(exts[i])))

fops_determine_filetype(filename) ==
  IF Len(filename) < 4 THEN "FileTypeNone"
  ELSE IF matches_extension(filename, <<<<"m", "p", "3">>>>)
  THEN "FileTypeMP3"
  ELSE IF matches_extension(filename, <<<<"o", "g", "g">>>>)
  THEN "FileTypeOGG"
  ELSE IF matches_extension(filename, <<<<"x", "m">>, <<"m", "o", "d">>,
                                        <<"s", "3", "m">>, <<"i", "t">>>>)
  THEN "FileTypeMOD"
  ELSE IF matches_extension(filename, <<<<"w", "a", "v">>>>)
  THEN "FileTypeWAV"
  ELSE IF matches_extension(filename, <<<<"f", "l", "a", "c">>>>)
  THEN "FileTypeFLAC"
  ELSE "FileTypeNone"

StemChars == {"a", "."}

NameTails ==
  {<<"m", "p", "3">>,
   <<"o", "g", "g">>,
   <<"x", "m">>,
   <<"m", "o", "d">>,
   <<"s", "3", "m">>,
   <<"i", "t">>,
   <<"w", "a", "v">>,
   <<"f", "l", "a", "c">>,
   <<"M", "P", "3">>,
   <<"O", "G", "G">>,
   <<"X", "M">>,
   <<"M", "O", "D">>,
   <<"S", "3", "M">>,
   <<"I", "T">>,
   <<"W", "A", "V">>,
   <<"F", "L", "A", "C">>,
   <<"M", "p", "3">>,
   <<"o", "G", "g">>,
   <<"f", "L", "a", "C">>,
   <<"t", "x", "t">>,
   <<"m", "p", "4">>,
   <<"m", "p">>,
   <<"m", "3", "u">>,
   <<>>}

Names ==
  {stem \o sep \o tail : stem \in SeqsUpTo(StemChars, MaxStem),
                         sep \in {<<>>, <<".">>}, tail \in NameTails}

FtInit ==
  /\ PlayerConstructed
  /\ idx = IdxIdle
  /\ \E name \in Names :
       fn = [op |-> "filetype", name |-> name, done |-> FALSE,
             out |-> "FileTypeNone"]

FtApply ==
  /\ fn.op = "filetype"
  /\ ~fn.done
  /\ fn' = [fn EXCEPT !.done = TRUE,
                      !.out = fops_determine_filetype(fn.name)]
  /\ UNCHANGED <<playerVars, idx>>

SpecFt == FtInit /\ [][FtApply]_vars

(* ---------------------------------------------------------------------- *)
(* fops_list_dir on its own.  A name is the sequence of its character      *)
(* codes; readdir yields the directory's entries, names distinct, in any   *)
(* order; up to MaxDir entries are listed.                                 *)
(* ---------------------------------------------------------------------- *)
NameDot == <<46>>
NameDotDot == <<46, 46>>
NameA == <<97>>
NameBTxt == <<98, 46, 116, 120, 116>>
NameCTxt == <<99, 46, 116, 120, 116>>

DirNames == {NameDot, NameDotDot, NameA, NameBTxt, NameCTxt}

DTypes == {"DT_REG", "DT_DIR", "DT_UNKNOWN"}

\* What readdir can yield for one entry.
DirEnts ==
  {[d_name |-> n, d_type |-> t] : n \in DirNames, t \in DTypes}
    \ {[d_name |-> n, d_type |-> t] : n \in {NameDot, NameDotDot},
                                      t \in {"DT_REG", "DT_UNKNOWN"}}

\* strcoll in the C locale: the sign of the first differing character
\* code, a proper prefix before the longer name.
RECURSIVE strcoll(_, _)
strcoll(a, b) ==
  IF a = <<>> /\ b = <<>> THEN 0
  ELSE IF a = <<>> THEN -1
  ELSE IF b = <<>> THEN 1
  ELSE IF Head(a) < Head(b) THEN -1
  ELSE IF Head(a) > Head(b) THEN 1
  ELSE strcoll(Tail(a), Tail(b))

S_ISDIR(mode) == IF mode = "S_IFDIR" THEN 1 ELSE 0

entry_cmp_FilesFirst(r1, r2) ==
  LET cmpdir == S_ISDIR(r1.mode) - S_ISDIR(r2.mode)
  IN IF cmpdir # 0 THEN cmpdir ELSE strcoll(r1.name, r2.name)

entry_cmp(r1, r2) ==
  LET cmpdir == S_ISDIR(r2.mode) - S_ISDIR(r1.mode)
  IN IF cmpdir # 0 THEN cmpdir ELSE strcoll(r1.name, r2.name)

\* qsort with entry_cmp: e put into an already sorted sequence.
RECURSIVE qsort_insert(_, _)
qsort_insert(sorted, e) ==
  IF sorted = <<>> THEN <<e>>
  ELSE IF entry_cmp(e, Head(sorted)) <= 0 THEN <<e>> \o sorted
  ELSE <<Head(sorted)>> \o qsort_insert(Tail(sorted), e)

RECURSIVE qsort(_)
qsort(entries) ==
  IF entries = <<>> THEN <<>>
  ELSE qsort_insert(qsort(Tail(entries)), Head(entries))

\* fops_list_dir, body of the readdir loop for one entry that is kept.
entry_of(ep) ==
  [name |-> ep.d_name,
   mode |-> IF ep.d_type = "DT_REG" THEN "S_IFREG"
            ELSE IF ep.d_type = "DT_DIR" THEN "S_IFDIR" ELSE "0"]

\* fops_list_dir, readdir loop: "." and ".." are skipped.
RECURSIVE read_entries(_)
read_entries(listing) ==
  IF listing = <<>> THEN <<>>
  ELSE IF Head(listing).d_name \in {NameDot, NameDotDot}
  THEN read_entries(Tail(listing))
  ELSE <<entry_of(Head(listing))>> \o read_entries(Tail(listing))

\* fops_list_dir: the return value and the entries handed back.
fops_list_dir(opened, listing, alloc_ok) ==
  IF ~opened THEN [ret |-> -1, entries |-> <<>>]
  ELSE LET entries == read_entries(listing)
       IN IF ~alloc_ok /\ entries # <<>>
          THEN [ret |-> -1, entries |-> <<>>]
          ELSE [ret |-> Len(entries), entries |-> qsort(entries)]

Listings ==
  {l \in SeqsUpTo(DirEnts, MaxDir) :
     \A i, j \in 1..Len(l) : i # j => l[i].d_name # l[j].d_name}

DirInit ==
  /\ PlayerConstructed
  /\ idx = IdxIdle
  /\ \E listing \in Listings, opened \in BOOLEAN, alloc_ok \in BOOLEAN :
       fn = [op |-> "list_dir", listing |-> listing, opened |-> opened,
             alloc_ok |-> alloc_ok, done |-> FALSE,
             out |-> [ret |-> 0, entries |-> <<>>]]

DirApply ==
  /\ fn.op = "list_dir"
  /\ ~fn.done
  /\ fn' = [fn EXCEPT !.done = TRUE,
                      !.out = fops_list_dir(fn.opened, fn.listing,
                                            fn.alloc_ok)]
  /\ UNCHANGED <<playerVars, idx>>

SpecDir == DirInit /\ [][DirApply]_vars

(* ---------------------------------------------------------------------- *)
(* keypad_debounce on its own.  The filter works on each bit of its        *)
(* uint16_t words separately; a word is modelled by its low KeyBits bits,  *)
(* bit b being element b.  trail keeps the last four calls: the sample,    *)
(* the filter's static variables before the call, and what it gave back.   *)
(* ---------------------------------------------------------------------- *)
Bits == 1..KeyBits

Words == [Bits -> {0, 1}]

ZeroWord == [b \in Bits |-> 0]

BitXor(x, y) == [b \in Bits |-> IF x[b] = y[b] THEN 0 ELSE 1]

BitAnd(x, y) == [b \in Bits |-> IF x[b] = 1 /\ y[b] = 1 THEN 1 ELSE 0]

BitOr(x, y) == [b \in Bits |-> IF x[b] = 1 \/ y[b] = 1 THEN 1 ELSE 0]

BitNot(x) == [b \in Bits |-> 1 - x[b]]

\* keypad_debounce: kp holds the static state, cnt0, cnt1; the result is
\* their new values and the change mask; the call returns the new state.
keypad_debounce_FreeRunning(kp, sample) ==
  LET delta == BitXor(sample, kp.state)
      cnt1 == BitXor(kp.cnt1, kp.cnt0)
      cnt0 == BitNot(kp.cnt0)
      toggle == BitAnd(delta, BitNot(BitOr(cnt0, cnt1)))
  IN [state |-> BitXor(kp.state, toggle), cnt0 |-> cnt0, cnt1 |-> cnt1,
      changes |-> toggle]

keypad_debounce_ReportsDelta(kp, sample) ==
  LET delta == BitXor(sample, kp.state)
      cnt1 == BitAnd(BitXor(kp.cnt1, kp.cnt0), delta)
      cnt0 == BitAnd(BitNot(kp.cnt0), delta)
      toggle == BitAnd(delta, BitNot(BitOr(cnt0, cnt1)))
  IN [state |-> BitXor(kp.state, toggle), cnt0 |-> cnt0, cnt1 |-> cnt1,
      changes |-> delta]

keypad_debounce_OneCounter(kp, sample) ==
  LET delta == BitXor(sample, kp.state)
      cnt1 == ZeroWord
      cnt0 == BitAnd(BitNot(kp.cnt0), delta)
      toggle == BitAnd(delta, BitNot(BitOr(cnt0, cnt1)))
  IN [state |-> BitXor(kp.state, toggle), cnt0 |-> cnt0, cnt1 |-> cnt1,
      changes |-> toggle]

keypad_debounce(kp, sample) ==
  LET delta == BitXor(sample, kp.state)
      cnt1 == BitAnd(BitXor(kp.cnt1, kp.cnt0), delta)
      cnt0 == BitAnd(BitNot(kp.cnt0), delta)
      toggle == BitAnd(delta, BitNot(BitOr(cnt0, cnt1)))
  IN [state |-> BitXor(kp.state, toggle), cnt0 |-> cnt0, cnt1 |-> cnt1,
      changes |-> toggle]

LastFour(t) == IF Len(t) <= 4 THEN t ELSE SubSeq(t, Len(t) - 3, Len(t))

\* The statics are zero-initialised.
KpInit ==
  /\ PlayerConstructed
  /\ idx = IdxIdle
  /\ fn = [op |-> "debounce",
           kp |-> [state |-> ZeroWord, cnt0 |-> ZeroWord, cnt1 |-> ZeroWord],
           trail |-> <<>>]

\* lv_keypad_read: one call keypad_debounce(keypad_sample(), &changes).
KpSample ==
  /\ fn.op = "debounce"
  /\ \E sample \in Words :
       LET r == keypad_debounce(fn.kp, sample)
       IN fn' = [fn EXCEPT
                   !.kp = [state |-> r.state, cnt0 |-> r.cnt0,
                           cnt1 |-> r.cnt1],
                   !.trail = LastFour(Append(fn.trail,
                               [sample |-> sample, before |-> fn.kp,
                                changes |-> r.changes, ret |-> r.state]))]
  /\ UNCHANGED <<playerVars, idx>>

SpecKp == KpInit /\ [][KpSample]_vars

(* ---------------------------------------------------------------------- *)
(* The ID3v2 size decoders of mp3_metadata on their own, applied to every  *)
(* four bytes drawn from SizeBytes.                                        *)
(* ---------------------------------------------------------------------- *)

\* Bitwise or and and of two non-negative ints.
RECURSIVE OrInt(_, _)
OrInt(a, b) ==
  IF a = 0 THEN b
  ELSE IF b = 0 THEN a
  ELSE (IF a % 2 = 1 \/ b % 2 = 1 THEN 1 ELSE 0)
         + 2 * OrInt(a \div 2, b \div 2)

RECURSIVE AndInt(_, _)
AndInt(a, b) ==
  IF a = 0 \/ b = 0 THEN 0
  ELSE (IF a % 2 = 1 /\ b % 2 = 1 THEN 1 ELSE 0)
         + 2 * AndInt(a \div 2, b \div 2)

\* x << n for a byte x and n <= 21: no bit is lost in an int.
Shl(x, n) == x * (2 ^ n)

\* syncsafe, applied by parse_id3 to header bytes 6..9: the bytes are
\* shifted and or-ed as they are.
syncsafe(b) ==
  OrInt(OrInt(Shl(b[1], 21), Shl(b[2], 14)), OrInt(Shl(b[3], 7), b[4]))

\* syncsafe32, applied to the size bytes of a frame of a version 4 tag.
syncsafe32(b) ==
  OrInt(OrInt(Shl(AndInt(b[1], 127), 21), Shl(AndInt(b[2], 127), 14)),
        OrInt(Shl(AndInt(b[3], 127), 7), AndInt(b[4], 127)))

\* Byte values: zero, one low bit pattern, the largest 7-bit value, the
\* high bit alone, all bits.
SizeBytes == {0, 32, 127, 128, 255}

SsInit ==
  /\ PlayerConstructed
  /\ idx = IdxIdle
  /\ \E b \in [1..4 -> SizeBytes] :
       fn = [op |-> "tag_size", hdr |-> b, done |-> FALSE, out |-> 0]

\* parse_id3: uint32_t tag_size = syncsafe(&hdr[6]).
SsApply ==
  /\ fn.op = "tag_size"
  /\ ~fn.done
  /\ fn' = [fn EXCEPT !.done = TRUE, !.out = syncsafe(fn.hdr)]
  /\ UNCHANGED <<playerVars, idx>>

SpecSs == SsInit /\ [][SsApply]_vars

(* ---------------------------------------------------------------------- *)
(* mp3_read_metadata on byte streams.  A file is the sequence of its       *)
(* bytes; a FILE position is the number of bytes before it.  A uint32_t is *)
(* the pair of its 16-bit halves, so that sums and differences wrap        *)
(* modulo 2^32 exactly as in the program.                                  *)
(* ---------------------------------------------------------------------- *)
Half == 65536

U32(n) == [hi |-> n \div Half, lo |-> n % Half]

U32FromBytes(b) == [hi |-> b[1] * 256 + b[2], lo |-> b[3] * 256 + b[4]]

U32Add(a, b) ==
  [hi |-> (a.hi + b.hi + ((a.lo + b.lo) \div Half)) % Half,
   lo |-> (a.lo + b.lo) % Half]

\* a - n modulo 2^32, for 0 <= n < 2^16.
U32Sub(a, n) ==
  IF a.lo >= n THEN [hi |-> a.hi, lo |-> a.lo - n]
  ELSE [hi |-> (a.hi + Half - 1) % Half, lo |-> a.lo + Half - n]

U32Lt(a, b) == a.hi < b.hi \/ (a.hi = b.hi /\ a.lo < b.lo)

\* a >= n, for 0 <= n < 2^16.
U32Ge(a, n) == a.hi > 0 \/ a.lo >= n

\* A position past the end of every file of the model.
FarPos == 1000000

\* fread(buf, 1, n, f): the bytes read and the new position.
FRead(file, pos, n) ==
  IF pos >= Len(file) THEN [data |-> <<>>, pos |-> pos]
  ELSE LET end == IF pos + n <= Len(file) THEN pos + n ELSE Len(file)
       IN [data |-> SubSeq(file, pos + 1, end), pos |-> end]

\* fseek(f, (long)off, SEEK_CUR) with a 32-bit long: an offset with its top
\* bit set moves backwards, and a move to before the start of the file
\* fails and leaves the position where it was.
FSeekCur(pos, off) ==
  IF off.hi < Half \div 2
  THEN IF off.hi > 0 \/ pos = FarPos THEN FarPos ELSE pos + off.lo
  ELSE LET mag == IF off.lo = 0 THEN [hi |-> Half - off.hi, lo |-> 0]
                  ELSE [hi |-> Half - 1 - off.hi, lo |-> Half - off.lo]
       IN IF pos = FarPos THEN FarPos
          ELSE IF mag.hi > 0 \/ mag.lo > pos THEN pos
          ELSE pos - mag.lo

\* A char buffer of max bytes; oob records a write at or past max.
ZeroBuf(max) == [bytes |-> [k \in 0..(max - 1) |-> 0], oob |-> FALSE]

BufPut(buf, i, v) ==
  IF i \in DOMAIN buf.bytes
  THEN [buf EXCEPT !.bytes[i] = v]
  ELSE [buf EXCEPT !.oob = TRUE]

\* The bytes of data written to buf from index i on.
BufCopy(buf, i, data) ==
  [bytes |-> [k \in DOMAIN buf.bytes |->
                IF k >= i /\ k < i + Len(data) THEN data[k - i + 1]
                ELSE buf.bytes[k]],
   oob |-> buf.oob \/ \E k \in i..(i + Len(data) - 1) : k \notin DOMAIN buf.bytes]

\* read_text, single-byte encodings: the count handed to fread.
clip_size_Unclipped(size, max) == size.lo

clip_size(size, max) == IF U32Ge(size, max) THEN max - 1 ELSE size.lo

\* read_text, two-byte encodings: the loop over code units, from its j-th
\* pass: the file position before it, the array c after fread (a code unit
\* that fread could not fill holds what the array held: garbage), and ch.
\* The loop runs while size >= 2 and o < max - 1 and stops at a zero unit.
utf16_loop(file, pos, size, o, buf, max, le, garbage) ==
  LET limit == IF size.hi > 0 \/ size.lo \div 2 > max - 1 - o
               THEN max - 1 - o ELSE size.lo \div 2
      PosAfter(j) == IF pos >= Len(file) THEN pos
                     ELSE IF pos + 2 * j > Len(file) THEN Len(file)
                     ELSE pos + 2 * j
      c(j) == LET r == FRead(file, PosAfter(j), 2)
              IN r.data \o SubSeq(garbage, Len(r.data) + 1, 2)
      ch(j) == IF le THEN c(j)[1] + c(j)[2] * 256 ELSE c(j)[2] + c(j)[1] * 256
      zeros == {j \in 0..(limit - 1) : ch(j) = 0}
      n == IF zeros = {} THEN limit
           ELSE CHOOSE j \in zeros : \A i \in zeros : j <= i
      text == [k \in 1..n |-> IF ch(k - 1) < 128 THEN ch(k - 1) ELSE 63]
  IN [buf |-> BufPut(BufCopy(buf, o, text), o + n, 0),
      pos |-> IF zeros = {} THEN PosAfter(n) ELSE PosAfter(n + 1)]

\* read_text: the buffer and the file position it leaves.
read_text(file, pos0, size0, out, max, garbage) ==
  IF max < 2 THEN [buf |-> BufPut(out, 0, 0), pos |-> pos0]
  ELSE
    LET e == FRead(file, pos0, 1)
    IN IF Len(e.data) # 1 THEN [buf |-> BufPut(out, 0, 0), pos |-> e.pos]
       ELSE
         LET enc == e.data[1]
             size == U32Sub(size0, 1)
         IN IF size = U32(0) THEN [buf |-> BufPut(out, 0, 0), pos |-> e.pos]
            ELSE IF enc = 0 \/ enc = 3
            THEN LET r == FRead(file, e.pos, clip_size(size, max))
                 IN [buf |-> BufPut(BufCopy(out, 0, r.data), Len(r.data), 0),
                     pos |-> r.pos]
            ELSE IF enc = 1 \/ enc = 2
            THEN LET b == FRead(file, e.pos, 2)
                     bom == b.data \o SubSeq(<<0, 0>>, Len(b.data) + 1, 2)
                     le == ~(bom[1] = 254 /\ bom[2] = 255)
                 IN utf16_loop(file, b.pos, U32Sub(size, 2), 0, out, max,
                               le, garbage)
            ELSE [buf |-> BufPut(out, 0, 0), pos |-> e.pos]

\* The C string a buffer holds: the bytes before its first zero.
CStr(buf) ==
  LET zs == {k \in DOMAIN buf.bytes : buf.bytes[k] = 0}
      n == IF zs = {} THEN Cardinality(DOMAIN buf.bytes)
           ELSE CHOOSE k \in zs : \A j \in zs : k <= j
  IN [k \in 1..n |-> buf.bytes[k - 1]]

TagID3 == <<73, 68, 51>>
\* The frame ids the parser knows, and one it skips.
FrameId == [TIT2 |-> <<84, 73, 84, 50>>, TPE1 |-> <<84, 80, 69, 49>>,
            TALB |-> <<84, 65, 76, 66>>, TXXX |-> <<84, 88, 88, 88>>]

\* memset(meta, 0, sizeof(*meta)).
ZeroMeta == [title |-> ZeroBuf(METADATA_TITLE_MAX),
             artist |-> ZeroBuf(METADATA_ARTIST_MAX),
             album |-> ZeroBuf(METADATA_ALBUM_MAX)]

\* mp3_read_metadata up to the frame loop of parse_id3: memset, fopen,
\* the 10-byte header.  hdr is what the array holds after fread.
parse_header(p, hdr) ==
  IF SubSeq(hdr, 1, 3) # TagID3
  THEN [p EXCEPT !.pc = "parsed", !.pos = 0]
  ELSE [p EXCEPT !.pc = "loop",
                 !.pos = IF Len(p.file) < 10 THEN Len(p.file) ELSE 10,
                 !.ver = hdr[4],
                 !.tag_size = U32(syncsafe(SubSeq(hdr, 7, 10))),
                 !.read = U32(0)]

\* parse_id3, the size of a frame from its header fh.
frame_size(ver, fh) ==
  IF ver = 4 THEN U32(syncsafe32(SubSeq(fh, 5, 8)))
  ELSE U32FromBytes(SubSeq(fh, 5, 8))

\* parse_id3, read += 10 + sz.
advance_read(read, sz) == U32Add(U32Add(read, U32(10)), sz)

\* parse_id3, one pass through the while loop, its condition included.
parse_frame(p, garbage) ==
  IF ~U32Lt(p.read, p.tag_size) THEN [p EXCEPT !.pc = "parsed"]
  ELSE
    LET r == FRead(p.file, p.pos, 10)
        fh == r.data
    IN IF Len(fh) # 10 THEN [p EXCEPT !.pc = "parsed", !.pos = r.pos]
       ELSE IF fh[1] = 0 THEN [p EXCEPT !.pc = "parsed", !.pos = r.pos]
       ELSE
         LET id == SubSeq(fh, 1, 4)
             sz == frame_size(p.ver, fh)
             q == [p EXCEPT !.read = advance_read(p.read, sz), !.pos = r.pos]
         IN IF sz = U32(0) THEN [q EXCEPT !.pc = "parsed"]
            ELSE IF id = FrameId.TIT2
            THEN LET t == read_text(p.file, r.pos, sz, p.meta.title,
                                    METADATA_TITLE_MAX, garbage)
                 IN [q EXCEPT !.meta.title = t.buf, !.pos = t.pos]
            ELSE IF id = FrameId.TPE1
            THEN LET t == read_text(p.file, r.pos, sz, p.meta.artist,
                                    METADATA_ARTIST_MAX, garbage)
                 IN [q EXCEPT !.meta.artist = t.buf, !.pos = t.pos]
            ELSE IF id = FrameId.TALB
            THEN LET t == read_text(p.file, r.pos, sz, p.meta.album,
                                    METADATA_ALBUM_MAX, garbage)
                 IN [q EXCEPT !.meta.album = t.buf, !.pos = t.pos]
            ELSE [q EXCEPT !.pos = FSeekCur(r.pos, sz)]

\* ui_player_set_metadata: the texts the two labels are given.
ui_player_set_metadata(title, artist) ==
  [title |-> IF title.text # <<>> THEN title
             ELSE [src |-> "Unknown Title", text |-> <<>>],
   artist |-> IF artist.text # <<>> THEN artist
              ELSE [src |-> "Unknown Artist", text |-> <<>>]]

\* n copies of the byte c.
Rep(c, n) == [k \in 1..n |-> c]

\* A frame: id, four size bytes, two flag bytes, payload.
Frame(id, szbytes, payload) == id \o szbytes \o <<0, 0>> \o payload

\* The frames the files of the model are put together from: well-formed
\* text frames in each encoding, texts longer than a buffer, frames whose
\* size field disagrees with the bytes that follow, and padding.
FrameKinds ==
  { Frame(FrameId.TIT2, <<0, 0, 0, 3>>, <<0, 72, 105>>),
    Frame(FrameId.TPE1, <<0, 0, 0, 2>>, <<3, 65>>),
    Frame(FrameId.TALB, <<0, 0, 0, 5>>, <<1, 255, 254, 66, 0>>),
    Frame(FrameId.TIT2, <<0, 0, 0, 71>>, <<0>> \o Rep(120, 70)),
    Frame(FrameId.TALB, <<0, 0, 0, 143>>, <<2, 254, 255>> \o Rep(121, 140)),
    Frame(FrameId.TPE1, <<0, 0, 0, 2>>, <<1, 255>>),
    Frame(FrameId.TPE1, <<0, 0, 0, 200>>, <<0, 90, 90>>),
    Frame(FrameId.TALB, <<0, 0, 0, 3>>, <<7, 65, 66>>),
    Frame(FrameId.TXXX, <<0, 0, 0, 4>>, <<0, 1, 2, 3>>),
    Frame(FrameId.TXXX, <<255, 255, 255, 246>>, <<>>),
    Frame(FrameId.TIT2, <<0, 0, 0, 0>>, <<>>),
    Rep(0, 10) }

RECURSIVE Flatten(_)
Flatten(ss) == IF ss = <<>> THEN <<>> ELSE Head(ss) \o Flatten(Tail(ss))

\* The ten bytes of an ID3v2 header.
TagHeader(ver, sizebytes) == TagID3 \o <<ver, 0, 0>> \o sizebytes

Files ==
  { TagHeader(v, sb) \o Flatten(fs) :
      v \in {3, 4}, sb \in {<<0, 0, 0, 0>>, <<0, 0, 4, 0>>},
      fs \in SeqsUpTo(FrameKinds, MaxFrames) }
  \cup { <<>>, <<73, 68>>, Rep(255, 12) }

\* What the array hdr of parse_id3 can hold where fread filled nothing.
GarbageHdrs == { Rep(0, 10), TagHeader(3, <<0, 0, 0, 1>>) }

\* What the array c of read_text can hold where fread filled nothing.
GarbageUnits == { <<0, 0>>, <<65, 0>>, <<255, 255>> }

\* The song's file name, as the display is given it.
SongFilename == [src |-> "filename", text |-> <<115, 46, 109, 112, 51>>]

Id3Init ==
  /\ PlayerConstructed
  /\ idx = IdxIdle
  /\ \E codec \in {"AudioCodecMP3", "AudioCodecWAV"}, openable \in BOOLEAN, file \in Files :
       /\ (codec # "AudioCodecMP3" \/ ~openable) => file = <<>>
       /\ codec # "AudioCodecMP3" => openable
       /\ fn = [op |-> "id3", codec |-> codec, openable |-> openable,
                file |-> file, pc |-> "set_metadata", pos |-> 0, ver |-> 0,
                tag_size |-> U32(0), read |-> U32(0), meta |-> ZeroMeta,
                sink |-> [title |-> [src |-> "none", text |-> <<>>],
                          artist |-> [src |-> "none", text |-> <<>>]],
                seen |-> {}, revisit |-> FALSE]

\* set_metadata of an MP3 song, up to the frame loop: mp3_read_metadata
\* clears meta, opens the file and parse_id3 reads the tag header.
Id3ReadMetadata ==
  /\ fn.op = "id3"
  /\ fn.pc = "set_metadata"
  /\ fn.codec = "AudioCodecMP3"
  /\ IF ~fn.openable
     THEN fn' = [fn EXCEPT !.pc = "parsed", !.meta = ZeroMeta]
     ELSE \E g \in GarbageHdrs :
            LET r == FRead(fn.file, 0, 10)
                hdr == r.data \o SubSeq(g, Len(r.data) + 1, 10)
            IN fn' = parse_header([fn EXCEPT !.meta = ZeroMeta], hdr)
  /\ UNCHANGED <<playerVars, idx>>

\* What a pass of the frame loop depends on, besides the file.
LoopState(p) == [pos |-> p.pos, read |-> p.read, meta |-> p.meta]

\* parse_id3: one pass through the frame loop.  seen is the set of states
\* earlier passes began in, revisit that a pass begins in one of them.
Id3Frame ==
  /\ fn.op = "id3"
  /\ fn.pc = "loop"
  /\ \E g \in GarbageUnits :
       LET q == parse_frame(fn, g)
           before == fn.seen \cup {LoopState(fn)}
       IN fn' = [q EXCEPT !.seen = before,
                          !.revisit = fn.revisit
                                      \/ (q.pc = "loop" /\ LoopState(q) \in before)]
  /\ UNCHANGED <<playerVars, idx>>

\* set_metadata of an MP3 song after mp3_read_metadata returned.
Id3ShowTag ==
  /\ fn.op = "id3"
  /\ fn.pc = "parsed"
  /\ fn' = [fn EXCEPT
              !.pc = "shown",
              !.sink = ui_player_set_metadata(
                         [src |-> "tag", text |-> CStr(fn.meta.title)],
                         [src |-> "tag", text |-> CStr(fn.meta.artist)])]
  /\ UNCHANGED <<playerVars, idx>>

\* set_metadata of a song of any other codec.
Id3ShowFilename ==
  /\ fn.op = "id3"
  /\ fn.pc = "set_metadata"
  /\ fn.codec # "AudioCodecMP3"
  /\ fn' = [fn EXCEPT
              !.pc = "shown",
              !.sink = ui_player_set_metadata(
                         SongFilename,
                         [src |-> "Unknown Artist",
                          text |-> <<85, 110, 107, 110, 111, 119, 110, 32,
                                     65, 114, 116, 105, 115, 116>>])]
  /\ UNCHANGED <<playerVars, idx>>

Id3Next == Id3ReadMetadata \/ Id3Frame \/ Id3ShowTag \/ Id3ShowFilename

SpecId3 == Id3Init /\ [][Id3Next]_vars

(* ---------------------------------------------------------------------- *)
(* The sink's volume: audio_volume and audio_volume_f, the mutex handle    *)
(* volume_mutex, and the two contexts that use them, one statement a step. *)
(* The UI context runs ui_increase_volume, ui_decrease_volume and the      *)
(* slider callback; the player task runs audio_submit, and audio_terminate *)
(* and audio_init between songs and around a pause.  A mutex is a handle   *)
(* 1..MaxMutexes; holder maps a handle to the context that has taken it.   *)
(* ---------------------------------------------------------------------- *)
\* audio_volume_set: the clamp to 0..100.
clamp_volume(v) == IF v > 100 THEN 100 ELSE IF v < 0 THEN 0 ELSE v

\* xSemaphoreGive(m) by context who: releases m only if who holds it.
SemaphoreGive(holder, m, who) ==
  IF holder[m] = who THEN [holder EXCEPT ![m] = "none"] ELSE holder

VolInit ==
  /\ PlayerConstructed
  /\ idx = IdxIdle
  /\ fn = [op |-> "volume",
           audio_volume |-> AUDIO_VOLUME_DEFAULT,
           audio_volume_f |-> AUDIO_VOLUME_DEFAULT,
           sink |-> audio_init([initialized |-> FALSE, sample_rate |-> 0],
                               DEFAULT_SAMPLE_RATE),
           volume_mutex |-> 1,
           holder |-> [m \in 1..MaxMutexes |-> "none"],
           ui |-> [pc |-> "idle", v |-> 0],
           pl |-> [pc |-> "idle", vol |-> AUDIO_VOLUME_DEFAULT]]

\* ui_increase_volume / ui_decrease_volume, first statement:
\* audio_volume_get() + 1 or - 1; audio_volume_get reads audio_volume.
VolUiCall ==
  /\ fn.op = "volume"
  /\ fn.ui.pc = "idle"
  /\ fn' = [fn EXCEPT !.ui.pc = "get"]
  /\ UNCHANGED <<playerVars, idx>>

VolUiGet ==
  /\ fn.op = "volume"
  /\ fn.ui.pc = "get"
  /\ \E d \in {-1, 1} :
       fn' = [fn EXCEPT !.ui.pc = "set", !.ui.v = fn.audio_volume + d]
  /\ UNCHANGED <<playerVars, idx>>

\* The slider callback: audio_volume_set(lv_slider_get_value(obj)).
VolUiSlider ==
  /\ fn.op = "volume"
  /\ fn.ui.pc = "idle"
  /\ \E value \in {0, 100} :
       fn' = [fn EXCEPT !.ui.pc = "set", !.ui.v = value]
  /\ UNCHANGED <<playerVars, idx>>

\* audio_volume_set: clamp, then xSemaphoreTake(volume_mutex, portMAX_DELAY).
VolUiTake ==
  /\ fn.op = "volume"
  /\ fn.ui.pc = "set"
  /\ fn.holder[fn.volume_mutex] = "none"
  /\ fn' = [fn EXCEPT !.ui.pc = "write_volume",
                      !.ui.v = clamp_volume(fn.ui.v),
                      !.holder[fn.volume_mutex] = "ui"]
  /\ UNCHANGED <<playerVars, idx>>

\* audio_volume_set: audio_volume = volume_percent.
VolUiWriteVolume ==
  /\ fn.op = "volume"
  /\ fn.ui.pc = "write_volume"
  /\ fn' = [fn EXCEPT !.ui.pc = "write_volume_f", !.audio_volume = fn.ui.v]
  /\ UNCHANGED <<playerVars, idx>>

\* audio_volume_set: audio_volume_f = volume_percent / 100.0f, kept here as
\* the percentage.
VolUiWriteVolumeF ==
  /\ fn.op = "volume"
  /\ fn.ui.pc = "write_volume_f"
  /\ fn' = [fn EXCEPT !.ui.pc = "give", !.audio_volume_f = fn.ui.v]
  /\ UNCHANGED <<playerVars, idx>>

\* audio_volume_set: xSemaphoreGive(volume_mutex), on the handle the
\* variable holds now.
VolUiGive ==
  /\ fn.op = "volume"
  /\ fn.ui.pc = "give"
  /\ fn' = [fn EXCEPT !.ui.pc = "return",
                      !.holder = SemaphoreGive(fn.holder, fn.volume_mutex, "ui")]
  /\ UNCHANGED <<playerVars, idx>>

\* audio_volume_set: return audio_volume.
VolUiReturn ==
  /\ fn.op = "volume"
  /\ fn.ui.pc = "return"
  /\ fn' = [fn EXCEPT !.ui.pc = "idle", !.ui.v = 0]
  /\ UNCHANGED <<playerVars, idx>>

\* audio_submit on an initialized sink: xSemaphoreTake(volume_mutex).
VolSubmitTake ==
  /\ fn.op = "volume"
  /\ fn.pl.pc = "idle"
  /\ fn.sink.initialized
  /\ fn.holder[fn.volume_mutex] = "none"
  /\ fn' = [fn EXCEPT !.pl.pc = "read",
                      !.holder[fn.volume_mutex] = "player"]
  /\ UNCHANGED <<playerVars, idx>>

\* audio_submit: float vol = audio_volume_f.
VolSubmitRead ==
  /\ fn.op = "volume"
  /\ fn.pl.pc = "read"
  /\ fn' = [fn EXCEPT !.pl.pc = "give", !.pl.vol = fn.audio_volume_f]
  /\ UNCHANGED <<playerVars, idx>>

\* audio_submit: xSemaphoreGive(volume_mutex), then scaling and the write.
VolSubmitGive ==
  /\ fn.op = "volume"
  /\ fn.pl.pc = "give"
  /\ fn' = [fn EXCEPT !.pl.pc = "idle",
                      !.holder = SemaphoreGive(fn.holder, fn.volume_mutex,
                                               "player")]
  /\ UNCHANGED <<playerVars, idx>>

\* The player task tears the sink down (end of a song, pause).
VolAudioTerminate ==
  /\ fn.op = "volume"
  /\ fn.pl.pc = "idle"
  /\ fn.sink.initialized
  /\ fn' = [fn EXCEPT !.sink = audio_terminate(fn.sink)]
  /\ UNCHANGED <<playerVars, idx>>

\* The player task sets the sink up again (next song, resume): audio_init
\* ends with volume_mutex = xSemaphoreCreateMutex(), a new handle each time.
VolAudioInit ==
  /\ fn.op = "volume"
  /\ fn.pl.pc = "idle"
  /\ ~fn.sink.initialized
  /\ fn.volume_mutex < MaxMutexes
  /\ \E rate \in SampleRates :
       fn' = [fn EXCEPT !.sink = audio_init(fn.sink, rate),
                        !.volume_mutex = fn.volume_mutex + 1]
  /\ UNCHANGED <<playerVars, idx>>

VolNext ==
  \/ VolUiCall
  \/ VolUiGet
  \/ VolUiSlider
  \/ VolUiTake
  \/ VolUiWriteVolume
  \/ VolUiWriteVolumeF
  \/ VolUiGive
  \/ VolUiReturn
  \/ VolSubmitTake
  \/ VolSubmitRead
  \/ VolSubmitGive
  \/ VolAudioTerminate
  \/ VolAudioInit

SpecVol == VolInit /\ [][VolNext]_vars

(* ---------------------------------------------------------------------- *)
(* make_playlist with play_all on a large directory, one pass of its first *)
(* loop a step: song_indices is a local array of MAX_SONGS slots, j the     *)
(* next slot; written is the highest slot index stored to so far, plus 1.  *)
(* player_task passes index 0.                                             *)
(* ---------------------------------------------------------------------- *)
CapInit ==
  /\ PlayerConstructed
  /\ idx = IdxIdle
  /\ \E n \in {MAX_SONGS, MAX_SONGS + MaxExtra} :
       fn = [op |-> "make_playlist", n_entries |-> n, pc |-> "scan",
             i |-> 0, j |-> 0, n_songs |-> 0, start_song |-> 0,
             written |-> 0, ret |-> 0, playlist_length |-> 0]

\* for (i = 0, j = 0; i < n_entries; i++): one entry, of any file type.
CapScan ==
  /\ fn.op = "make_playlist"
  /\ fn.pc = "scan"
  /\ fn.i < fn.n_entries
  /\ \E ftype \in EntryTypes :
       IF choose_codec(ftype) # "AudioCodecUnknown"
       THEN fn' = [fn EXCEPT !.start_song = IF fn.i = 0 THEN fn.j ELSE @,
                            !.written = fn.j + 1,
                            !.j = fn.j + 1,
                            !.n_songs = fn.n_songs + 1,
                            !.i = fn.i + 1]
       ELSE fn' = [fn EXCEPT !.i = fn.i + 1]
  /\ UNCHANGED <<playerVars, idx>>

\* After the loop: the playlist is allocated and filled from song_indices.
CapBuild ==
  /\ fn.op = "make_playlist"
  /\ fn.pc = "scan"
  /\ fn.i = fn.n_entries
  /\ \E alloc \in PlAllocs :
       IF alloc = "playlist_malloc_null"
       THEN fn' = [fn EXCEPT !.pc = "returned", !.ret = -1]
       ELSE IF alloc = "song_malloc_null" /\ fn.n_songs > 0
       THEN fn' = [fn EXCEPT !.pc = "returned", !.ret = -1,
                            !.playlist_length = fn.n_songs]
       ELSE fn' = [fn EXCEPT !.pc = "returned", !.ret = 0,
                            !.playlist_length = fn.n_songs]
  /\ UNCHANGED <<playerVars, idx>>

SpecCap == CapInit /\ [][CapScan \/ CapBuild]_vars

(* ---------------------------------------------------------------------- *)
(* The two contexts and the two locks.  lvgl_task holds lvgl_mutex around  *)
(* lv_timer_handler, whose callbacks call player_send_cmd and              *)
(* audio_volume_set; the player task takes lvgl_mutex in                   *)
(* ui_player_set_metadata and volume_mutex in audio_submit.  holder maps   *)
(* each lock to the context that holds it; for volume_mutex it describes   *)
(* the handle the variable holds now.  Every queue call but the ack wait   *)
(* has timeout 0.                                                          *)
(* ---------------------------------------------------------------------- *)
LkInit ==
  /\ PlayerConstructed
  /\ idx = IdxIdle
  /\ fn = [op |-> "lock",
           holder |-> [m \in {"lvgl_mutex", "volume_mutex"} |-> "none"],
           cmdq |-> <<>>,
           ackq |-> <<>>,
           playing |-> FALSE,
           ui |-> "delay",
           pl |-> "song"]

\* lvgl_task: xSemaphoreTake(lvgl_mutex, portMAX_DELAY), lv_timer_handler
\* (which runs one callback or none), xSemaphoreGive, vTaskDelay.
LkLvglTask ==
  /\ fn.op = "lock"
  /\ \/ /\ fn.ui = "delay"
        /\ fn.holder["lvgl_mutex"] = "none"
        /\ fn' = [fn EXCEPT !.ui = "handler", !.holder["lvgl_mutex"] = "ui"]
     \/ /\ fn.ui = "handler"
        /\ \E next \in {"send_cmd", "volume_set", "give"} :
             fn' = [fn EXCEPT !.ui = next]
     \/ /\ fn.ui = "give"
        /\ fn' = [fn EXCEPT !.ui = "delay",
                            !.holder = SemaphoreGive(fn.holder, "lvgl_mutex",
                                                     "ui")]
  /\ UNCHANGED <<playerVars, idx>>

\* btn_handler -> player_send_cmd: xQueueSend with timeout 0, then the ack
\* wait, which ends at once when an ack is queued.
LkSendCmd ==
  /\ fn.op = "lock"
  /\ \/ /\ fn.ui = "send_cmd"
        /\ \E cmd \in {"PlayerCmdPrev", "PlayerCmdPause", "PlayerCmdNext"} :
             fn' = [fn EXCEPT !.ui = "wait_ack",
                              !.cmdq = QueueSend0(fn.cmdq, cmd)]
     \/ /\ fn.ui = "wait_ack"
        /\ fn.ackq # <<>>
        /\ fn' = [fn EXCEPT !.ui = "handler", !.ackq = Tail(fn.ackq)]
  /\ UNCHANGED <<playerVars, idx>>

\* player_send_cmd: the ack wait gives up after 10 ms.
LkAckTimeout_PortMaxDelay ==
  /\ fn.op = "lock"
  /\ fn.ui = "wait_ack"
  /\ FALSE
  /\ fn' = fn
  /\ UNCHANGED <<playerVars, idx>>

LkAckTimeout ==
  /\ fn.op = "lock"
  /\ fn.ui = "wait_ack"
  /\ fn.ackq = <<>>
  /\ fn' = [fn EXCEPT !.ui = "handler"]
  /\ UNCHANGED <<playerVars, idx>>

\* ui_increase_volume / ui_decrease_volume / slider -> audio_volume_set:
\* xSemaphoreTake(volume_mutex, portMAX_DELAY), the writes, xSemaphoreGive.
LkVolumeSet ==
  /\ fn.op = "lock"
  /\ \/ /\ fn.ui = "volume_set"
        /\ fn.holder["volume_mutex"] = "none"
        /\ fn' = [fn EXCEPT !.ui = "volume_give",
                            !.holder["volume_mutex"] = "ui"]
     \/ /\ fn.ui = "volume_give"
        /\ fn' = [fn EXCEPT !.ui = "handler",
                            !.holder = SemaphoreGive(fn.holder, "volume_mutex",
                                                     "ui")]
  /\ UNCHANGED <<playerVars, idx>>

\* play_song -> ui_player_set_metadata: xSemaphoreTake(lvgl_mutex,
\* portMAX_DELAY), the two labels, xSemaphoreGive.
LkSetMetadata ==
  /\ fn.op = "lock"
  /\ \/ /\ fn.pl = "song"
        /\ fn.holder["lvgl_mutex"] = "none"
        /\ fn' = [fn EXCEPT !.pl = "labels",
                            !.holder["lvgl_mutex"] = "player"]
     \/ /\ fn.pl = "labels"
        /\ fn' = [fn EXCEPT !.pl = "audio_init",
                            !.holder = SemaphoreGive(fn.holder, "lvgl_mutex",
                                                     "player")]
  /\ UNCHANGED <<playerVars, idx>>

\* play_song after the metadata: audio_init (volume_mutex becomes a new,
\* free mutex), then the loop: player_poll_cmd, the ack and handle_cmd
\* (Pause tears the sink down or sets it up again, Next and Prev end the
\* song), and at the end of the song audio_terminate.
LkPlaySong ==
  /\ fn.op = "lock"
  /\ \/ /\ fn.pl = "audio_init"
        /\ fn' = [fn EXCEPT !.pl = "poll", !.playing = TRUE,
                            !.holder["volume_mutex"] = "none"]
     \/ /\ fn.pl = "poll"
        /\ LET cmd == player_poll_cmd(fn.cmdq)
           IN  IF cmd = "PlayerCmdNone"
               THEN \E done \in BOOLEAN :
                      fn' = [fn EXCEPT !.pl = IF done THEN "song"
                                              ELSE IF fn.playing THEN "submit"
                                              ELSE "poll",
                                       !.playing = fn.playing /\ ~done]
               ELSE fn' = [fn EXCEPT
                      !.cmdq = Tail(fn.cmdq),
                      !.ackq = player_cmd_ack(fn.ackq),
                      !.pl = IF cmd = "PlayerCmdPause"
                             THEN (IF fn.playing THEN "poll" ELSE "submit")
                             ELSE "song",
                      !.playing = (cmd = "PlayerCmdPause") /\ ~fn.playing,
                      !.holder["volume_mutex"] =
                         IF cmd = "PlayerCmdPause" /\ ~fn.playing
                         THEN "none" ELSE fn.holder["volume_mutex"]]
  /\ UNCHANGED <<playerVars, idx>>

\* audio_submit: xSemaphoreTake(volume_mutex, portMAX_DELAY), the read of
\* audio_volume_f, xSemaphoreGive.
LkAudioSubmit ==
  /\ fn.op = "lock"
  /\ \/ /\ fn.pl = "submit"
        /\ fn.holder["volume_mutex"] = "none"
        /\ fn' = [fn EXCEPT !.pl = "submit_give",
                            !.holder["volume_mutex"] = "player"]
     \/ /\ fn.pl = "submit_give"
        /\ fn' = [fn EXCEPT !.pl = "poll",
                            !.holder = SemaphoreGive(fn.holder, "volume_mutex",
                                                     "player")]
  /\ UNCHANGED <<playerVars, idx>>

SpecLk ==
  LkInit /\ [][LkLvglTask \/ LkSendCmd \/ LkAckTimeout \/ LkVolumeSet
               \/ LkSetMetadata \/ LkPlaySong \/ LkAudioSubmit]_vars

TypeOK ==
  /\ player_state.playing \in BOOLEAN
  /\ player_state.playing_mode \in 0..(PlayingModeMax - 1)
  /\ Len(player_cmd_queue) <= QueueLength
  /\ Len(player_ack_queue) <= QueueLength
  /\ result \in PlayerResult
  /\ received_cmd \in PlayerCmd

(* ====================================================================== *)
(* Claims                                                                  *)
(* ====================================================================== *)
PLen == player_state.playlist_length
PIdx == player_state.playlist_index
PMode == player_state.playing_mode

\* C1: whenever the playlist is non-empty, after any sequence of applied
\* commands and song outcomes, 0 <= playlist_index < playlist_length.
C1_IndexInRange == PLen > 0 => (0 <= PIdx /\ PIdx < PLen)

\* C1 witness: a Prev applied at index 0 of a 3-song playlist has wrapped.
C1_Witness ==
  /\ pc = "song" /\ result = "PlayerResultPrevSong"
  /\ PLen = 3 /\ song_index = 0 /\ PIdx = 2

\* C2: for every length L >= 1, index i and loop mode, an explicit Next
\* resolves to (i+1) mod L and an explicit Prev to (i-1+L) mod L; Next from
\* L-1 gives 0, Prev from 0 gives L-1, and Next then Prev returns to i.
C2_NextPrev ==
  LET L == idx.state.playlist_length
      i == idx.state.playlist_index
      t == idx.trail
  IN /\ t # <<>> =>
          LET r == t[Len(t)]
          IN /\ r.res = "PlayerResultNextSong" => i = (r.from + 1) % L
             /\ r.res = "PlayerResultPrevSong" => i = (r.from - 1 + L) % L
             /\ (r.res = "PlayerResultNextSong" /\ r.from = L - 1) => i = 0
             /\ (r.res = "PlayerResultPrevSong" /\ r.from = 0) => i = L - 1
     /\ (Len(t) = 2 /\ t[1].res = "PlayerResultNextSong"
           /\ t[2].res = "PlayerResultPrevSong") => i = t[1].from

\* C2 witness: in RepeatSong mode, Next from the last of 3 songs wrapped to
\* 0 and the following Prev came back to the last song.
C2_Witness ==
  /\ idx.state.playlist_length = 3
  /\ idx.state.playing_mode = PlayingModeRepeatSong
  /\ Len(idx.trail) = 2
  /\ idx.trail[1] = [res |-> "PlayerResultNextSong", from |-> 2,
                     mode |-> PlayingModeRepeatSong]
  /\ idx.trail[2].res = "PlayerResultPrevSong"
  /\ idx.state.playlist_index = 2

\* C3: in RepeatSong mode a song that ends with result Done leaves
\* playlist_index on the song just played and that song is opened again,
\* while an explicit Next or Prev still moves the index by one with wrap.
C3_AfterReturn ==
  (pc = "song" /\ PLen > 0 /\ PMode = PlayingModeRepeatSong) =>
     /\ result = "PlayerResultDone" => PIdx = song_index
     /\ result = "PlayerResultNextSong" => PIdx = (song_index + 1) % PLen
     /\ result = "PlayerResultPrevSong" =>
          PIdx = (song_index - 1 + PLen) % PLen

C3_RepeatSong ==
  /\ []C3_AfterReturn
  /\ [][(pc = "song" /\ pc' = "poll") => song_index' = PIdx]_vars

\* C3 witness: song 1 of 3 ended naturally in RepeatSong mode and is still
\* the current song.
C3_Witness ==
  /\ pc = "song" /\ PMode = PlayingModeRepeatSong
  /\ result = "PlayerResultDone" /\ did = "decode" /\ n_frames <= 0
  /\ PLen = 3 /\ song_index = 1 /\ PIdx = 1

\* C4: when decode returns a frame count <= 0 while playing, the loop ends,
\* play_song returns Done and, in Normal and RepeatPlaylist modes, the index
\* becomes (i+1) mod L (so the last song wraps to 0).
C4_NaturalEnd ==
  (did = "decode" /\ n_frames <= 0) =>
     /\ pc = "song"
     /\ result = "PlayerResultDone"
     /\ PMode \in {PlayingModeNormal, PlayingModeRepeatPlaylist} =>
          PIdx = (song_index + 1) % PLen

\* C4 witness: the last of 3 songs decoded 0 frames in Normal mode and the
\* index wrapped to 0.
C4_Witness ==
  /\ did = "decode" /\ n_frames = 0 /\ PMode = PlayingModeNormal
  /\ PLen = 3 /\ song_index = 2 /\ PIdx = 0 /\ pc = "song"

\* C5: when the decoder cannot be obtained, opened or queried, play_song
\* returns Error without decoding, the task stays in its loop and the index
\* becomes (i+1) mod L in every loop mode, RepeatSong included.
C5_OpenError ==
  (pc = "song" /\ result = "PlayerResultError") =>
     /\ PIdx = (song_index + 1) % PLen
     /\ did = "none"
     /\ player_task_running
     /\ ENABLED PlaySongOpen

\* C5 witness: the last of 3 songs failed to open in RepeatSong mode and the
\* index moved on to 0.
C5_Witness ==
  /\ pc = "song" /\ result = "PlayerResultError"
  /\ PMode = PlayingModeRepeatSong
  /\ PLen = 3 /\ song_index = 2 /\ PIdx = 0

\* The command the player task polls in a step that leaves the poll point.
Polled == player_poll_cmd(player_cmd_queue)

PollStep == pc = "poll" /\ pc' # "poll"

\* C6, first part: a Pause flips playing; pausing leaves the sink torn down,
\* resuming leaves it initialized at the open song's sample rate.
C6_Flip ==
  [][(PollStep /\ Polled = "PlayerCmdPause") =>
       /\ player_state'.playing = ~player_state.playing
       /\ player_state.playing => ~audio'.initialized
       /\ ~player_state.playing =>
            (audio'.initialized /\ audio'.sample_rate = info)]_vars

\* C6: each applied Pause flips the playing flag (pausing tears the sink
\* down, resuming initializes it at the current song's sample rate), and a
\* Pause applied right after a Pause that paused restores Playing with the
\* playlist index and loop mode the first Pause found.
C6_PauseTwice ==
  [][(PollStep /\ Polled = "PlayerCmdPause") =>
       /\ player_state'.playing = ~player_state.playing
       /\ player_state.playing => ~audio'.initialized
       /\ ~player_state.playing =>
            (audio'.initialized /\ audio'.sample_rate = info)
       /\ pause_mark # NoMark =>
            /\ player_state'.playing
            /\ player_state'.playlist_index = pause_mark.index
            /\ player_state'.playing_mode = pause_mark.mode]_vars

\* C7: from the iteration in which a Pause sets playing to false until
\* another command is applied, play_song has not returned and the playlist
\* index is the one the Pause found.
C7_PausedKeepsSong ==
  pause_mark # NoMark =>
     /\ pc \in {"poll", "decode"}
     /\ ~player_state.playing
     /\ PIdx = pause_mark.index
     /\ song_index = pause_mark.index

\* C8: a loop iteration has decoded nothing before its command is applied;
\* its body decodes and submits one chunk exactly when playing is true
\* after that command, and sleeps, leaving n_frames alone, otherwise; no
\* decode happens anywhere else.
C8_DecodeOnlyWhenPlaying ==
  /\ [](pc = "decode" => did = "none")
  /\ [][(pc = "decode" /\ pc' # "decode") =>
          /\ (did' = "decode") = player_state.playing
          /\ (did' = "sleep") = ~player_state.playing
          /\ ~player_state.playing => n_frames' = n_frames]_vars
  /\ [][(did' = "decode" /\ did # "decode") =>
          (pc = "decode" /\ player_state.playing)]_vars

\* C8 witness: a paused iteration has slept without decoding.
C8_Witness ==
  /\ pc = "poll" /\ did = "sleep" /\ ~player_state.playing
  /\ received_cmd = "PlayerCmdNone" /\ n_frames > 0

\* C9: the iteration that polls Next or Prev decodes nothing more, play_song
\* returns NextSong or PrevSong from it, the index is resolved with wrap
\* and the next song opened is the one at that index (3 songs, index 1,
\* Next: result NextSong, index 2).
C9_Scenario ==
  (pc = "song" /\ received_cmd = "PlayerCmdNext" /\ PLen = 3
     /\ song_index = 1) =>
     (result = "PlayerResultNextSong" /\ PIdx = 2)

C9_SkipImmediate ==
  /\ [][(PollStep /\ Polled \in {"PlayerCmdNext", "PlayerCmdPrev"}) =>
          /\ pc' = "song"
          /\ did' = "none" /\ n_frames' = n_frames
          /\ result' = IF Polled = "PlayerCmdNext"
                        THEN "PlayerResultNextSong"
                        ELSE "PlayerResultPrevSong"
          /\ player_state'.playlist_index =
               IF Polled = "PlayerCmdNext"
               THEN (song_index + 1) % PLen
               ELSE (song_index - 1 + PLen) % PLen]_vars
  /\ [][(pc = "song" /\ pc' = "poll") => song_index' = PIdx]_vars
  /\ []C9_Scenario

\* C9 witness: Next was polled while song 1 of 3 played; play_song returned
\* NextSong and the index is 2.
C9_Witness ==
  /\ pc = "song" /\ received_cmd = "PlayerCmdNext" /\ PLen = 3
  /\ song_index = 1 /\ result = "PlayerResultNextSong" /\ PIdx = 2

\* C10: ToggleLoopMode moves Normal -> RepeatSong -> RepeatPlaylist ->
\* Normal, three toggles in a row give the original mode back, a toggle
\* leaves the playing flag, the index and the sink alone and does not end
\* the song, and a song ending in the iteration of the toggle resolves its
\* index under the new mode.
ToggleOnce(st) ==
  handle_cmd(st, audio, <<>>, info, "PlayerCmdToggleLoopMode").state

C10_NewModeUsed ==
  (pc = "song" /\ received_cmd = "PlayerCmdToggleLoopMode") =>
     /\ result = "PlayerResultDone"
     /\ PIdx = IF PMode = PlayingModeRepeatSong THEN song_index
               ELSE (song_index + 1) % PLen

C10_Toggle ==
  /\ [][(PollStep /\ Polled = "PlayerCmdToggleLoopMode") =>
          /\ PMode = PlayingModeNormal =>
               player_state'.playing_mode = PlayingModeRepeatSong
          /\ PMode = PlayingModeRepeatSong =>
               player_state'.playing_mode = PlayingModeRepeatPlaylist
          /\ PMode = PlayingModeRepeatPlaylist =>
               player_state'.playing_mode = PlayingModeNormal
          /\ ToggleOnce(ToggleOnce(ToggleOnce(player_state))) = player_state
          /\ player_state'.playing = player_state.playing
          /\ player_state'.playlist_index = PIdx
          /\ audio' = audio
          /\ pc' = "decode"]_vars
  /\ []C10_NewModeUsed

\* C10 witness: the toggle Normal -> RepeatSong was applied in the iteration
\* in which song 1 of 3 ended, and the index stayed 1.
C10_Witness ==
  /\ pc = "song" /\ received_cmd = "PlayerCmdToggleLoopMode"
  /\ PMode = PlayingModeRepeatSong /\ did = "decode"
  /\ PLen = 3 /\ song_index = 1 /\ PIdx = 1

TerminateQueued ==
  \E i \in 1..Len(player_cmd_queue) :
    player_cmd_queue[i] = "PlayerCmdTerminate"

InPlaybackLoop == pc \in {"song", "poll", "decode"} /\ PLen > 0

\* C12: from any state of the running player task (playing, paused, or
\* going through songs that fail to open), once a Terminate is in the
\* command queue the task eventually leaves its playback loop and clears
\* player_task_running.
C12_TerminateLeaves ==
  (InPlaybackLoop /\ TerminateQueued) ~> ~player_task_running

PlaylistReleased ==
  ~resources.playlist_alloc /\ resources.playlist_frees = 1

\* C13: player_terminate never drops the Terminate command (its enqueue
\* waits for room), and when it returns the playback loop has been left,
\* the playlist storage has been released, and the task's watchdog
\* registration and the task itself have been torn down.
C13_TerminateWaits ==
  [][/\ (ui_pc = "term_send" /\ ui_pc' = "term_wait")
          => player_cmd_queue' =
               Append(player_cmd_queue, "PlayerCmdTerminate")
     /\ (ui_pc = "term_wait" /\ ui_pc' = "idle")
          => /\ pc = "deleted"
             /\ ~resources.wdt
             /\ ~resources.task
             /\ PlaylistReleased]_vars

\* C14: the playlist storage allocated by make_playlist is freed exactly
\* once when the player task terminates: never twice, never while the
\* task is still in its playback loop, and once the task has processed a
\* Terminate and is gone the storage has been released.
C14_FreedOnce ==
  /\ resources.playlist_frees <= 1
  /\ resources.playlist_frees = 1 => pc \in {"stopped", "deleted"}
  /\ pc = "deleted"
       => PlaylistReleased

SendStep == ui_pc = "idle" /\ ui_pc' = "wait_ack"

\* C15: player_send_cmd never blocks on a full queue: a send that finds 3
\* unconsumed commands leaves the queue's contents as they are (the new
\* command is dropped), a send that finds room appends, the call then
\* returns by an ack or by the timeout of its ack wait, and the command
\* queue never holds more than 3 commands.
C15_SendNeverBlocks ==
  /\ [](Len(player_cmd_queue) <= QueueLength)
  /\ [](ui_pc = "idle" => ENABLED QSendCmd)
  /\ [](ui_pc = "wait_ack" => ENABLED (QAckReceive \/ QAckTimeout))
  /\ [][SendStep =>
          /\ Len(player_cmd_queue) = QueueLength
               => /\ player_cmd_queue' = player_cmd_queue
                  /\ ~ui_call'.queued
          /\ Len(player_cmd_queue) < QueueLength
               => /\ player_cmd_queue' =
                       Append(player_cmd_queue, ui_call'.cmd)
                  /\ ui_call'.queued]_vars

\* A send found the queue full, its command was dropped and the call has
\* returned by the timeout with the three earlier commands still queued.
C15_Witness ==
  /\ ui_pc = "idle"
  /\ ui_call.cmd \in QCmds
  /\ ~ui_call.queued
  /\ ui_call.ack = "timeout"
  /\ Len(player_cmd_queue) = QueueLength

TimeoutStep == ui_pc = "wait_ack" /\ ui_call'.ack = "timeout"

PlOut == fn.out.state

IsPlayable(ftype) == choose_codec(ftype) # "AudioCodecUnknown"

\* C17: in play-all mode a playlist that was built holds exactly the
\* scanned entries whose codec is resolved, each with that codec, in scan
\* order, and when the entry at params.index is playable playlist_index is
\* the position at which that entry stands in the playlist.
C17_PlayAll ==
  (fn.op = "make_playlist" /\ fn.done /\ fn.params.play_all
     /\ fn.out.ret = 0)
    => LET ents == fn.params.entries
           pl == PlOut.playlist
       IN /\ PlOut.playlist_length = Len(pl)
          /\ {pl[k].entry : k \in 1..Len(pl)} =
               {i \in 0..(Len(ents) - 1) : IsPlayable(ents[i + 1])}
          /\ \A k \in 1..Len(pl) :
               /\ pl[k].codec = choose_codec(ents[pl[k].entry + 1])
               /\ k < Len(pl) => pl[k].entry < pl[k + 1].entry
          /\ (Len(ents) > 0 /\ IsPlayable(ents[fn.params.index + 1]))
               => /\ PlOut.playlist_index \in 0..(Len(pl) - 1)
                  /\ pl[PlOut.playlist_index + 1].entry = fn.params.index

\* Listing [unsupported, MP3, WAV] with the third entry selected: the
\* playlist is [MP3, WAV] and starts at position 1.
C17_Witness ==
  /\ fn.op = "make_playlist" /\ fn.done /\ fn.out.ret = 0
  /\ fn.params = [entries |-> <<"FileTypeNone", "FileTypeMP3", "FileTypeWAV">>,
                  index |-> 2, play_all |-> TRUE]
  /\ PlOut.playlist = <<[entry |-> 1, codec |-> "AudioCodecMP3"],
                        [entry |-> 2, codec |-> "AudioCodecWAV"]>>
  /\ PlOut.playlist_index = 1

\* C18: the playback loop is never entered with an empty playlist: the
\* task is past make_playlist and at or inside its for(;;) loop only with
\* playlist_length > 0, so playlist[playlist_index] is never read and the
\* index never resolved with a length of 0.
C18_LoopNonEmpty ==
  pc \in {"song", "poll", "decode", "fault"} => PLen > 0

\* The extension of a name: what follows its last dot, nothing when the
\* name has no dot.
Extension(name) ==
  IF \E k \in 1..Len(name) : name[k] = "."
  THEN LET d == CHOOSE k \in 1..Len(name) :
                  /\ name[k] = "."
                  /\ \A j \in (k + 1)..Len(name) : name[j] # "."
       IN SubSeq(name, d + 1, Len(name))
  ELSE <<>>

CodecOfExtension(ext) ==
  IF EqNoCase(ext, <<"m", "p", "3">>) THEN "AudioCodecMP3"
  ELSE IF EqNoCase(ext, <<"o", "g", "g">>) THEN "AudioCodecOGG"
  ELSE IF \/ EqNoCase(ext, <<"x", "m">>) \/ EqNoCase(ext, <<"m", "o", "d">>)
          \/ EqNoCase(ext, <<"s", "3", "m">>) \/ EqNoCase(ext, <<"i", "t">>)
  THEN "AudioCodecMOD"
  ELSE IF EqNoCase(ext, <<"w", "a", "v">>) THEN "AudioCodecWAV"
  ELSE IF EqNoCase(ext, <<"f", "l", "a", "c">>) THEN "AudioCodecFLAC"
  ELSE "AudioCodecUnknown"

\* C19: for every filename the codec is the one of its extension, compared
\* without regard to case; a name whose extension is not a listed one,
\* also a name that only ends in the letters of one, gives Unknown.
C19_ByExtension ==
  (fn.op = "filetype" /\ fn.done)
    => choose_codec(fn.out) = CodecOfExtension(Extension(fn.name))

\* C20: a scan that does not fail returns every entry of the directory
\* other than "." and "..", each once and with its kind, all directories
\* before all other entries and names ascending by collation within each
\* group; a scan of a path that cannot be opened returns -1.
C20_ScanSorted ==
  (fn.op = "list_dir" /\ fn.done)
    => LET in == fn.listing
           out == fn.out.entries
           kept == {k \in 1..Len(in) :
                      in[k].d_name \notin {NameDot, NameDotDot}}
       IN /\ ~fn.opened => fn.out.ret = -1
          /\ fn.out.ret >= 0
               => /\ fn.out.ret = Len(out)
                  /\ Len(out) = Cardinality(kept)
                  /\ \A k \in kept :
                       \E m \in 1..Len(out) :
                         /\ out[m].name = in[k].d_name
                         /\ (out[m].mode = "S_IFDIR")
                              = (in[k].d_type = "DT_DIR")
                  /\ \A m \in 1..(Len(out) - 1) :
                       /\ out[m + 1].mode = "S_IFDIR"
                            => out[m].mode = "S_IFDIR"
                       /\ (out[m].mode = "S_IFDIR")
                            = (out[m + 1].mode = "S_IFDIR")
                            => strcoll(out[m].name, out[m + 1].name) < 0

\* The scan of {b.txt file, a directory, c.txt file} gave [a, b.txt, c.txt].
C20_Witness ==
  /\ fn.op = "list_dir" /\ fn.done
  /\ fn.listing = <<[d_name |-> NameBTxt, d_type |-> "DT_REG"],
                    [d_name |-> NameA, d_type |-> "DT_DIR"],
                    [d_name |-> NameCTxt, d_type |-> "DT_REG"]>>
  /\ fn.out = [ret |-> 3,
               entries |-> <<[name |-> NameA, mode |-> "S_IFDIR"],
                             [name |-> NameBTxt, mode |-> "S_IFREG"],
                             [name |-> NameCTxt, mode |-> "S_IFREG"]>>]

KpTrail == IF fn.op = "debounce" THEN fn.trail ELSE <<>>

Settled(n, b) ==
  KpTrail[n].before.cnt0[b] = 0 /\ KpTrail[n].before.cnt1[b] = 0

\* Call n of the trail presents bit b with a value other than the
\* debounced state's.
Differs(n, b) == KpTrail[n].sample[b] # KpTrail[n].before.state[b]

\* C21: a raw bit that differs from the debounced state in one sample only
\* (the sample after it agrees with that state, and so does the sample
\* before it; for the oldest call kept, whose predecessor is not kept, the
\* bit's counters are zero, which is the case at the first call) is in
\* neither call's change mask and both calls return the state's bit
\* unchanged.
C21_GlitchFiltered ==
  \A n \in 1..(Len(KpTrail) - 1), b \in Bits :
    LET old == KpTrail[n].before.state[b]
    IN (/\ Differs(n, b)
        /\ KpTrail[n + 1].sample[b] = old
        /\ IF n > 1 THEN KpTrail[n - 1].sample[b] = old
           ELSE Settled(1, b))
         => /\ KpTrail[n].changes[b] = 0
            /\ KpTrail[n + 1].changes[b] = 0
            /\ KpTrail[n].ret[b] = old
            /\ KpTrail[n + 1].ret[b] = old

\* Bit 1 is debounced to 1 and sampled as 1; one sample reads 0 and the
\* next reads 1 again: nothing is reported and the state stays 1.
C21_Witness ==
  /\ Len(KpTrail) = 4
  /\ KpTrail[2].before.state[1] = 1
  /\ KpTrail[2].sample[1] = 1
  /\ KpTrail[3].sample[1] = 0
  /\ KpTrail[4].sample[1] = 1
  /\ KpTrail[3].changes[1] = 0 /\ KpTrail[4].changes[1] = 0
  /\ KpTrail[4].ret[1] = 1

\* C22 as claimed: from a settled filter, a bit flipped and held for two
\* consecutive samples is in the change mask of the second of them only,
\* and that call returns the new value.
C22_TwoSamples ==
  \A n \in 1..(Len(KpTrail) - 1), b \in Bits :
    (/\ Settled(n, b)
     /\ Differs(n, b)
     /\ KpTrail[n + 1].sample[b] = KpTrail[n].sample[b])
      => /\ KpTrail[n].changes[b] = 0
         /\ KpTrail[n + 1].changes[b] = 1
         /\ KpTrail[n + 1].ret[b] = KpTrail[n].sample[b]

\* C22 amended: from a settled filter, a bit flipped and held for four
\* consecutive samples is in the change mask of the fourth of them only,
\* the first three calls return the old value and the fourth the new one.
C22_FourSamples ==
  \A b \in Bits :
    (/\ Len(KpTrail) = 4
     /\ Settled(1, b)
     /\ Differs(1, b)
     /\ \A n \in 2..4 : KpTrail[n].sample[b] = KpTrail[1].sample[b])
      => /\ \A n \in 1..3 :
              /\ KpTrail[n].changes[b] = 0
              /\ KpTrail[n].ret[b] = KpTrail[1].before.state[b]
         /\ KpTrail[4].changes[b] = 1
         /\ KpTrail[4].ret[b] = KpTrail[1].sample[b]

\* Bit 1 pressed from the zero-initialised filter and held for four
\* samples: reported on the fourth.
C22_Witness ==
  /\ Len(KpTrail) = 4
  /\ KpTrail[1].before = [state |-> ZeroWord, cnt0 |-> ZeroWord,
                          cnt1 |-> ZeroWord]
  /\ \A n \in 1..4 : KpTrail[n].sample[1] = 1
  /\ \A n \in 1..3 : KpTrail[n].changes[1] = 0
  /\ KpTrail[4].changes[1] = 1
  /\ KpTrail[4].ret[1] = 1

\* C23: for every four header bytes the tag size is
\* (b0&0x7F)*2^21 + (b1&0x7F)*2^14 + (b2&0x7F)*2^7 + (b3&0x7F), which is
\* never above 0x0FFFFFFF.
C23_TagSize ==
  (fn.op = "tag_size" /\ fn.done)
    => /\ fn.out = (fn.hdr[1] % 128) * 2097152 + (fn.hdr[2] % 128) * 16384
                     + (fn.hdr[3] % 128) * 128 + (fn.hdr[4] % 128)
       /\ fn.out <= 268435455


\* C24: after mp3_read_metadata (the parser has returned) each of the title,
\* artist and album buffers holds a zero byte within its 64 bytes, and no
\* byte was ever written outside a buffer.
NulTerminated(buf) == \E k \in DOMAIN buf.bytes : buf.bytes[k] = 0

C24_BuffersBounded ==
  fn.op = "id3" =>
    /\ ~fn.meta.title.oob /\ ~fn.meta.artist.oob /\ ~fn.meta.album.oob
    /\ fn.pc \in {"parsed", "shown"} =>
         /\ NulTerminated(fn.meta.title)
         /\ NulTerminated(fn.meta.artist)
         /\ NulTerminated(fn.meta.album)

\* A 70-character title was cut to the 63 characters the buffer has room
\* for.
C24_Witness ==
  /\ fn.op = "id3"
  /\ fn.pc = "parsed"
  /\ CStr(fn.meta.title) = Rep(120, METADATA_TITLE_MAX - 1)

\* C25: parse_id3 terminates on every finite file, corrupted frame sizes
\* wrapping modulo 2^32 included.  A pass of the frame loop is a function of
\* the file, the position, read and the buffers, so the loop ends exactly
\* when no pass begins in a state an earlier pass began in.
C25_ParseTerminates == fn.op = "id3" => ~fn.revisit

\* C26: a song without usable metadata (not an MP3, file that cannot be
\* opened, no ID3v2 tag, or no title or artist frame) is shown with its file
\* name as title and "Unknown Artist" as artist.
NoUsableMetadata ==
  \/ fn.codec # "AudioCodecMP3"
  \/ (CStr(fn.meta.title) = <<>> /\ CStr(fn.meta.artist) = <<>>)

C26_FilenameFallback ==
  (fn.op = "id3" /\ fn.pc = "shown" /\ NoUsableMetadata) =>
    /\ fn.sink.title = SongFilename
    /\ fn.sink.artist.src = "Unknown Artist"


\* C27: an iteration of the decode loop polls once, without blocking, and
\* applies at most one command: the poll takes the oldest waiting command
\* off the queue (none when the queue is empty), the command is applied and
\* acknowledged in that same step, and only then the iteration decodes or
\* sleeps, which touches neither queue; a decode is always preceded by the
\* poll of its iteration.
BodyStep == pc = "decode" /\ pc' # "decode"

UiStep == ui_pc' # ui_pc

C28_SingleWriter ==
  [][UiStep =>
       /\ player_state' = player_state
       /\ UNCHANGED <<player_task_running, audio, pc, song_index, info,
                      n_frames, result, received_cmd, did>>]_vars

\* player_send_cmd has queued a Pause and waits for the ack while the
\* player, not having polled yet, is still playing.
C28_Witness ==
  /\ ui_pc = "wait_ack"
  /\ player_cmd_queue = <<"PlayerCmdPause">>
  /\ player_state.playing
  /\ pc = "poll"


\* C29: the player task resets the watchdog at the start of every iteration
\* of the decode loop, playing or paused: the poll step leaves the watchdog
\* fed, and every decode+submit and every pause sleep begins with the
\* watchdog fed since the one before it.
C29_WatchdogEveryIteration ==
  [][/\ PollStep => resources'.wdt_fed
     /\ BodyStep => resources.wdt /\ resources.wdt_fed]_vars

\* Paused in an earlier iteration, the task has slept, reset the watchdog
\* and found no command: it is about to sleep again.
C29_Witness ==
  /\ pc = "decode"
  /\ ~player_state.playing
  /\ received_cmd = "PlayerCmdNone"
  /\ resources.wdt_fed


\* C30: every read and every write of the sink's volume happens while the
\* context doing it holds the volume lock, so the UI's volume adjustment and
\* the player task's read for submission are never concurrent; and the
\* stored volume is always within 0..100.
UiAtVolume ==
  fn.ui.pc \in {"get", "write_volume", "write_volume_f", "return"}

C30_VolumeUnderLock ==
  fn.op = "volume" =>
    /\ UiAtVolume => fn.holder[fn.volume_mutex] = "ui"
    /\ fn.pl.pc = "read" => fn.holder[fn.volume_mutex] = "player"
    /\ ~(fn.ui.pc \in {"write_volume", "write_volume_f"} /\ fn.pl.pc = "read")
    /\ fn.audio_volume \in 0..100
    /\ fn.audio_volume_f \in 0..100


\* C31: building a playlist never writes past its fixed capacity: the
\* number of song slots recorded never exceeds MAX_SONGS, and a directory
\* with more playable entries makes the build fail.
C31_CapacityRespected ==
  fn.op = "make_playlist" =>
    /\ fn.written <= MAX_SONGS
    /\ (fn.pc = "returned" /\ fn.n_songs > MAX_SONGS) => fn.ret = -1


\* C32: an ack token received by a player_send_cmd call was produced by the
\* player task applying the command of that same call.  Calls are made one
\* after the other and the queues are FIFO, so this is: when a call takes a
\* token, its command was queued, the command queue has been emptied by the
\* player task, and the token taken is the only one waiting.
ReceiveStep == ui_pc = "wait_ack" /\ ui_call'.ack = "got"

C32_AckOfOwnCommand ==
  [][ReceiveStep =>
       /\ ui_call.queued
       /\ player_cmd_queue = <<>>
       /\ Len(player_ack_queue) = 1]_vars


\* C33: audio_submit is only ever called with a frame count greater than 0:
\* in a loop body that decodes, the count handed to the sink (the decode
\* result, kept in n_frames) is positive.
C33_SubmitPositive ==
  [][(BodyStep /\ did' = "decode") => n_frames' > 0]_vars


\* C34: sink setup and teardown stay paired: audio_init is never called on
\* an initialized sink nor audio_terminate on one that is not (at a song
\* start, and in handle_cmd for Pause and ReinitAudio), and during a song the
\* sink is initialized exactly when the playing flag is true.
SongStartStep == pc = "song" /\ pc' = "poll"

C34_InitTerminatePaired ==
  /\ [](pc \in {"poll", "decode"} =>
          (audio.initialized <=> player_state.playing))
  /\ [][/\ SongStartStep => ~audio.initialized
        /\ (PollStep /\ Polled \in {"PlayerCmdPause", "PlayerCmdReinitAudio"})
             => (audio.initialized <=> player_state.playing)]_vars


\* C35: between any two consecutive song starts the player task polls the
\* command queue and resets the watchdog at least once, also when the song
\* fails to open: the task never goes from one song start straight to the
\* next, so a step that begins and ends at the song start is no step of the
\* player task.
C35_PollBetweenStarts ==
  [][(pc = "song" /\ pc' = "song") =>
       UNCHANGED <<player_state, song_index, result, received_cmd, did>>]_vars


\* C36: player_task_running is true only while the player task is alive
\* and will still poll the command queue; after an early stop (directory
\* listing, playlist build or audio buffer allocation failed) it is false.
C36_RunningMeansPolling ==
  player_task_running => pc \in {"song", "poll", "decode"}


\* C37: after parse_id3 handles a frame of declared size sz that lies
\* within the file (a text frame or a skipped frame), the stream position
\* is exactly 10 + sz bytes past the start of the frame's header.
FrameHandled ==
  /\ fn.op = "id3" /\ fn.pc = "loop"
  /\ fn'.pc = "loop" /\ fn'.read # fn.read

C37_FrameConsumed ==
  [][FrameHandled =>
       LET sz == frame_size(fn.ver, FRead(fn.file, fn.pos, 10).data)
       IN (sz.hi = 0 /\ fn.pos + 10 + sz.lo <= Len(fn.file))
            => fn'.pos = fn.pos + 10 + sz.lo]_vars


\* C38: for keypad_debounce, bit by bit: on every call the returned state
\* differs from the previous state exactly in the reported change bits; a
\* sample bit equal to the state leaves it so with nothing reported; a
\* sample bit held for four calls in a row, from whatever the counters
\* were, has become the state by the fourth, reported once if it differed
\* and never if it did not; and what a call does to a bit is a function of
\* that bit's state, counters and sample alone.
HeldFor4(b) ==
  /\ Len(KpTrail) = 4
  /\ \A n \in 1..4 : KpTrail[n].sample[b] = KpTrail[1].sample[b]

\* One bit of the filter: counter c0 + 2 * c1 counts samples that differ.
BitFilter(s, c0, c1, x) ==
  LET cnt == IF x = s THEN 0 ELSE (c0 + 2 * c1 + 1) % 4
      chg == IF x # s /\ cnt = 0 THEN 1 ELSE 0
  IN [state |-> IF chg = 1 THEN x ELSE s, changes |-> chg]

UiCanStep == ENABLED (LkLvglTask \/ LkSendCmd \/ LkAckTimeout \/ LkVolumeSet)

PlayerCanStep == ENABLED (LkSetMetadata \/ LkPlaySong \/ LkAudioSubmit)

C39_NoDeadlock == fn.op = "lock" => UiCanStep \/ PlayerCanStep

C39_Witness ==
  /\ fn.op = "lock"
  /\ fn.ui = "wait_ack"
  /\ fn.ackq = <<>>
  /\ fn.cmdq # <<>>
  /\ fn.holder["lvgl_mutex"] = "ui"
  /\ fn.pl = "song"
  /\ ~PlayerCanStep

====
